---------------------------- MODULE Spec2Model ----------------------------
(***************************************************************************)
(* Model of the token analysis route (POST /api/comprehensive-analysis):   *)
(* address validation, the bluechip allowlist, the four data adapters and  *)
(* their settlement, risk factor derivation, scoring, tiering and the      *)
(* recommendation cascade.                                                 *)
(* Also modelled: the legacy red-flag path (analyzeRedFlags and its score), *)
(* two requests in progress at once, and the page's submit handler.        *)
(*                                                                         *)
(* Strings the code inspects character by character (the contract address) *)
(* are tuples of one-character strings.  An optional JSON field is <<>>    *)
(* when absent and <<v>> when present.                                     *)
(***************************************************************************)
EXTENDS Integers, Sequences, FiniteSets, TLC

VARIABLES
    pc,        \* position of the POST handler
    request,   \* the request body as received
    started,   \* how many times each adapter has been invoked
    settled,   \* the settlement of each adapter's promise
    response,  \* the HTTP response of the handler
    analysis,  \* <<>> or <<the ComprehensiveAnalysis returned>>
    call,      \* a direct call of one of the pure functions
    ret,       \* <<>> or <<the value that call returned>>
    whitelist, \* the module-level array BLUECHIP_WHITELIST as it stands
    peer,      \* the frame of a second request suspended at an await
    page       \* the state of the page component and of its submit handler

vars == <<pc, request, started, settled, response, analysis, call, ret,
          whitelist, peer, page>>

---------------------------------------------------------------------------
(* Addresses *)

ADDR_USDT ==
    <<"0","x","d","a","c","1","7","f","9","5","8","d","2","e","e","5","2","3",
    "a","2","2","0","6","2","0","6","9","9","4","5","9","7","c","1","3","d",
    "8","3","1","e","c","7">>

ADDR_USDC ==
    <<"0","x","a","0","b","8","6","9","9","1","c","6","2","1","8","b","3","6",
    "c","1","d","1","9","d","4","a","2","e","9","e","b","0","c","e","3","6",
    "0","6","e","b","4","8">>

ADDR_WETH_CHECKSUM ==
    <<"0","x","c","0","2","a","a","A","3","9","b","2","2","3","F","E","8","D",
    "0","A","0","e","5","C","4","F","2","7","e","A","D","9","0","8","3","C",
    "7","5","6","C","c","2">>

ADDR_LINK ==
    <<"0","x","5","1","4","9","1","0","7","7","1","a","f","9","c","a","6","5",
    "6","a","f","8","4","0","d","f","f","8","3","e","8","2","6","4","e","c",
    "f","9","8","6","c","a">>

ADDR_USDC_UPPER ==
    <<"0","x","A","0","B","8","6","9","9","1","C","6","2","1","8","B","3","6",
    "C","1","D","1","9","D","4","A","2","E","9","E","B","0","C","E","3","6",
    "0","6","E","B","4","8">>

ADDR_LINK_BIGX ==
    <<"0","X","5","1","4","9","1","0","7","7","1","a","f","9","c","a","6","5",
    "6","a","f","8","4","0","d","f","f","8","3","e","8","2","6","4","e","c",
    "f","9","8","6","c","a">>

ADDR_SHIB_CHECKSUM ==
    <<"0","x","9","5","a","D","6","1","b","0","a","1","5","0","d","7","9","2",
    "1","9","d","C","F","6","4","E","1","E","6","C","c","0","1","f","0","B",
    "6","4","C","4","c","E">>

ADDR_SHORT ==
    <<"0","x","1","2","3","4">>

ADDR_NONHEX ==
    <<"0","x","g","1","4","9","1","0","7","7","1","a","f","9","c","a","6","5",
    "6","a","f","8","4","0","d","f","f","8","3","e","8","2","6","4","e","c",
    "f","9","8","6","c","a">>

\* String.prototype.toLowerCase on one character
LowerChar(c) ==
    CASE c = "A" -> "a" [] c = "B" -> "b" [] c = "C" -> "c"
      [] c = "D" -> "d" [] c = "E" -> "e" [] c = "F" -> "f"
      [] c = "X" -> "x" [] OTHER -> c

toLowerCase(s) == [i \in 1..Len(s) |-> LowerChar(s[i])]

HexChars ==
    {"0","1","2","3","4","5","6","7","8","9",
     "a","b","c","d","e","f","A","B","C","D","E","F"}

\* faulty variant of the address test: /^0x/
AddressRegexPrefixOnly(addr) ==
    /\ Len(addr) >= 2
    /\ addr[1] = "0"
    /\ addr[2] = "x"

\* faulty variant of the address test: /^0x[a-f0-9]{40}$/
AddressRegexLower(addr) ==
    /\ Len(addr) = 42
    /\ addr[1] = "0"
    /\ addr[2] = "x"
    /\ \A i \in 3..42 : addr[i] \in {"0","1","2","3","4","5","6","7","8","9",
                                     "a","b","c","d","e","f"}

\* /^0x[a-fA-F0-9]{40}$/.test(contractAddress)
AddressRegex(addr) ==
    /\ Len(addr) = 42
    /\ addr[1] = "0"
    /\ addr[2] = "x"
    /\ \A i \in 3..42 : addr[i] \in HexChars

BLUECHIP_WHITELIST ==
    << ADDR_USDT, ADDR_USDC, toLowerCase(ADDR_WETH_CHECKSUM), ADDR_LINK >>

\* Array.prototype.includes
Includes(arr, x) == \E i \in 1..Len(arr) : arr[i] = x

\* faulty variant: the address is looked up without toLowerCase()
isBluechipTokenCaseSensitive(address) == Includes(whitelist, address)

isBluechipToken(address) == Includes(whitelist, toLowerCase(address))

\* The request bodies the model submits: a body that is not JSON, a body
\* without contractAddress, and bodies carrying each sample address.
SampleAddresses ==
    { ADDR_USDT, ADDR_WETH_CHECKSUM, ADDR_USDC_UPPER, ADDR_LINK_BIGX,
      ADDR_SHIB_CHECKSUM, ADDR_SHORT, ADDR_NONHEX }

Requests ==
    { [json |-> FALSE, contractAddress |-> <<>>],
      [json |-> TRUE,  contractAddress |-> <<>>] }
    \cup { [json |-> TRUE, contractAddress |-> a] : a \in SampleAddresses }

---------------------------------------------------------------------------
(* JavaScript helpers *)

\* Number.parseInt / Number.parseFloat of text that is no number
NaN == -1

\* x || fallback for an optional string: null, undefined and "" are falsy
OrString(x, fallback) == IF x = <<>> \/ x[1] = "" THEN fallback ELSE x[1]

\* x || 0 for an optional number: undefined, null and 0 are falsy
OrZero(x) == IF x = <<>> THEN 0 ELSE x[1]

\* Number.parseInt on the decimal strings the model uses
parseInt(s) ==
    CASE s = "0" -> 0 [] s = "6" -> 6 [] s = "18" -> 18 [] OTHER -> NaN

\* Number.parseFloat of a totalSupply string, as mantissa * 10^exp; the
\* samples are a single digit followed by zeros.
parseFloat(s) ==
    CASE s = "0" -> [m |-> 0, e |-> 0]
      [] s = "1000000000000000000" -> [m |-> 1, e |-> 18]
      [] s = "2000000000000000000" -> [m |-> 2, e |-> 18]
      [] s = "10000000000000000000" -> [m |-> 1, e |-> 19]
      [] OTHER -> [m |-> NaN, e |-> 0]

RECURSIVE Gcd(_, _)
Gcd(a, b) == IF b = 0 THEN a ELSE Gcd(b, a % b)

\* A non-negative fraction n/d in lowest terms (a JavaScript number that is
\* the quotient of two integers)
Frac(n, d) == LET g == Gcd(n, d) IN [n |-> n \div g, d |-> d \div g]

FracGt(f, k) == f.n > k * f.d

Min(a, b) == IF a < b THEN a ELSE b

---------------------------------------------------------------------------
(* Metadata adapter *)

\* What the Tatum smart-contract endpoint can answer to one read call
ContractResponse(values) ==
    { [kind |-> "throw", isNull |-> FALSE, data |-> <<>>],
      [kind |-> "notok", isNull |-> FALSE, data |-> <<>>],
      [kind |-> "ok",    isNull |-> TRUE,  data |-> <<>>] }
    \cup { [kind |-> "ok", isNull |-> FALSE, data |-> <<v>>] : v \in values }

NameResponses ==
    { r \in ContractResponse({"Tether USD", ""}) : r.kind # "notok" /\ ~r.isNull }
SymbolResponses ==
    { r \in ContractResponse({"USDT"}) : r.kind # "throw" /\ ~r.isNull }
DecimalsResponses ==
    { r \in ContractResponse({"6", "0"}) : r.kind # "notok" /\ ~r.isNull }
SupplyResponses ==
    { r \in ContractResponse({"10000000000000000000"}) : r.kind # "throw" }

\* callContractMethod: the string the call yields, <<>> for null.  Every
\* failure is caught inside, so the promise is always fulfilled.
callContractMethod(resp) ==
    IF resp.kind = "ok"
    THEN IF resp.isNull
         THEN <<>>                       \* every ?. is undefined: null
         ELSE IF resp.data # <<>> /\ resp.data[1] # ""
         THEN resp.data                  \* result.data
         ELSE <<"[object Object]">>      \* result.toString()
    ELSE <<>>                            \* not OK, or caught: null

getTokenMetadata(contractAddress, rName, rSymbol, rDecimals, rSupply) ==
    [ name            |-> OrString(callContractMethod(rName), "Unknown"),
      symbol          |-> OrString(callContractMethod(rSymbol), "UNKNOWN"),
      decimals        |-> parseInt(OrString(callContractMethod(rDecimals), "18")),
      totalSupply     |-> OrString(callContractMethod(rSupply), "0"),
      contractAddress |-> contractAddress ]

getDefaultTokenData(contractAddress) ==
    [ name            |-> "Unknown Token",
      symbol          |-> "UNKNOWN",
      totalSupply     |-> "0",
      decimals        |-> 18,
      contractAddress |-> contractAddress ]

---------------------------------------------------------------------------
(* Market adapter *)

\* market_data of a CoinGecko answer: each field <<>> when absent.  The
\* samples are a healthy listing on the thresholds of the market rules and
\* a collapsing one below them.
MarketBodies ==
    { [ price |-> <<1>>, market_cap |-> <<100000>>, total_volume |-> <<10000>>,
        price_change |-> <<-50>>, circulating_supply |-> <<1000>>,
        total_supply |-> <<1000>>, max_supply |-> <<2000>>, ath |-> <<2>>,
        ath_change |-> <<-50>>, atl |-> <<1>>, atl_change |-> <<>> ],
      [ price |-> <<1>>, market_cap |-> <<99999>>, total_volume |-> <<>>,
        price_change |-> <<-51>>, circulating_supply |-> <<1000>>,
        total_supply |-> <<1000>>, max_supply |-> <<>>, ath |-> <<2>>,
        ath_change |-> <<-50>>, atl |-> <<1>>, atl_change |-> <<>> ] }

MarketResponses ==
    { [kind |-> "throw", isNull |-> FALSE, market_data |-> <<>>],
      [kind |-> "notok", isNull |-> FALSE, market_data |-> <<>>],
      [kind |-> "ok",    isNull |-> TRUE,  market_data |-> <<>>],
      [kind |-> "ok",    isNull |-> FALSE, market_data |-> <<>>] }
    \cup { [kind |-> "ok", isNull |-> FALSE, market_data |-> <<b>>] :
             b \in MarketBodies }

\* getMarketData: <<>> is null
getMarketData(resp) ==
    IF resp.kind # "ok" \/ resp.isNull
    THEN <<>>      \* not listed; a thrown fetch or a null body is caught
    ELSE LET md == resp.market_data
         IN << [ price               |-> IF md = <<>> THEN 0 ELSE OrZero(md[1].price),
                 marketCap           |-> IF md = <<>> THEN 0 ELSE OrZero(md[1].market_cap),
                 volume24h           |-> IF md = <<>> THEN 0 ELSE OrZero(md[1].total_volume),
                 priceChange24h      |-> IF md = <<>> THEN 0 ELSE OrZero(md[1].price_change),
                 circulatingSupply   |-> IF md = <<>> THEN 0 ELSE OrZero(md[1].circulating_supply),
                 totalSupply         |-> IF md = <<>> THEN 0 ELSE OrZero(md[1].total_supply),
                 maxSupply           |-> IF md = <<>> THEN <<>> ELSE md[1].max_supply,
                 ath                 |-> IF md = <<>> THEN 0 ELSE OrZero(md[1].ath),
                 athChangePercentage |-> IF md = <<>> THEN 0 ELSE OrZero(md[1].ath_change),
                 atl                 |-> IF md = <<>> THEN 0 ELSE OrZero(md[1].atl),
                 atlChangePercentage |-> IF md = <<>> THEN 0 ELSE OrZero(md[1].atl_change) ] >>

---------------------------------------------------------------------------
(* Security adapter *)

\* Source code is modelled by the set of fragments the regular expressions
\* of the adapter look for; the empty string is the empty set.
SourceSamples ==
    { {},
      {"contract"},
      {"contract", "function mint("},
      {"contract", "Pausable", "Proxy", "renounceOwnership", "onlyOwner"},
      {"contract", ".mint(", "function pause(", "blacklist", "upgradeable"} }

SecurityResponses ==
    { [kind |-> "throw", isNull |-> FALSE, SourceCode |-> <<>>],
      [kind |-> "notok", isNull |-> FALSE, SourceCode |-> <<>>],
      [kind |-> "ok",    isNull |-> TRUE,  SourceCode |-> <<>>],
      [kind |-> "ok",    isNull |-> FALSE, SourceCode |-> <<>>] }
    \cup { [kind |-> "ok", isNull |-> FALSE, SourceCode |-> <<src>>] :
             src \in SourceSamples }

calculateRugPullRisk(security) ==
    Min( (IF ~security.isVerified THEN 25 ELSE 0)
         + (IF security.hasMintFunction THEN 15 ELSE 0)
         + (IF security.hasBlacklistFunction THEN 25 ELSE 0)
         + (IF security.hasPauseFunction THEN 10 ELSE 0)
         + (IF security.hasProxyContract THEN 15 ELSE 0)
         + (IF ~security.hasOwnershipRenounced THEN 10 ELSE 0),
         100 )

\* faulty variant: the function flags start out true
performSecurityAnalysisPessimistic(resp) ==
    LET init == [ isVerified            |-> FALSE,
                  hasProxyContract      |-> TRUE,
                  hasMintFunction       |-> TRUE,
                  hasPauseFunction      |-> TRUE,
                  hasBlacklistFunction  |-> TRUE,
                  hasOwnershipRenounced |-> FALSE,
                  rugPullRisk           |-> 0 ]
        sourceCode == IF resp.SourceCode = <<>> THEN {} ELSE resp.SourceCode[1]
        flags ==
            IF resp.kind # "ok" \/ sourceCode = {}
            THEN init
            ELSE [ init EXCEPT
                     !.isVerified = TRUE,
                     !.hasMintFunction =
                         "function mint(" \in sourceCode \/ ".mint(" \in sourceCode,
                     !.hasPauseFunction =
                         "function pause(" \in sourceCode \/ "Pausable" \in sourceCode,
                     !.hasBlacklistFunction = "blacklist" \in sourceCode,
                     !.hasProxyContract =
                         "Proxy" \in sourceCode \/ "upgradeable" \in sourceCode,
                     !.hasOwnershipRenounced =
                         "renounceOwnership" \in sourceCode /\ "onlyOwner" \in sourceCode ]
    IN  IF resp.kind = "throw" \/ (resp.kind = "ok" /\ resp.isNull)
        THEN init          \* caught before rugPullRisk is computed
        ELSE [ flags EXCEPT !.rugPullRisk = calculateRugPullRisk(flags) ]

\* faulty variant: isVerified is never set
performSecurityAnalysisUnverified(resp) ==
    LET init == [ isVerified            |-> FALSE,
                  hasProxyContract      |-> FALSE,
                  hasMintFunction       |-> FALSE,
                  hasPauseFunction      |-> FALSE,
                  hasBlacklistFunction  |-> FALSE,
                  hasOwnershipRenounced |-> FALSE,
                  rugPullRisk           |-> 0 ]
        sourceCode == IF resp.SourceCode = <<>> THEN {} ELSE resp.SourceCode[1]
        flags ==
            IF resp.kind # "ok" \/ sourceCode = {}
            THEN init
            ELSE [ init EXCEPT
                     !.isVerified = FALSE,
                     !.hasMintFunction =
                         "function mint(" \in sourceCode \/ ".mint(" \in sourceCode,
                     !.hasPauseFunction =
                         "function pause(" \in sourceCode \/ "Pausable" \in sourceCode,
                     !.hasBlacklistFunction = "blacklist" \in sourceCode,
                     !.hasProxyContract =
                         "Proxy" \in sourceCode \/ "upgradeable" \in sourceCode,
                     !.hasOwnershipRenounced =
                         "renounceOwnership" \in sourceCode /\ "onlyOwner" \in sourceCode ]
    IN  IF resp.kind = "throw" \/ (resp.kind = "ok" /\ resp.isNull)
        THEN init          \* caught before rugPullRisk is computed
        ELSE [ flags EXCEPT !.rugPullRisk = calculateRugPullRisk(flags) ]

performSecurityAnalysis(resp) ==
    LET init == [ isVerified            |-> FALSE,
                  hasProxyContract      |-> FALSE,
                  hasMintFunction       |-> FALSE,
                  hasPauseFunction      |-> FALSE,
                  hasBlacklistFunction  |-> FALSE,
                  hasOwnershipRenounced |-> FALSE,
                  rugPullRisk           |-> 0 ]
        sourceCode == IF resp.SourceCode = <<>> THEN {} ELSE resp.SourceCode[1]
        flags ==
            IF resp.kind # "ok" \/ sourceCode = {}
            THEN init
            ELSE [ init EXCEPT
                     !.isVerified = TRUE,
                     !.hasMintFunction =
                         "function mint(" \in sourceCode \/ ".mint(" \in sourceCode,
                     !.hasPauseFunction =
                         "function pause(" \in sourceCode \/ "Pausable" \in sourceCode,
                     !.hasBlacklistFunction = "blacklist" \in sourceCode,
                     !.hasProxyContract =
                         "Proxy" \in sourceCode \/ "upgradeable" \in sourceCode,
                     !.hasOwnershipRenounced =
                         "renounceOwnership" \in sourceCode /\ "onlyOwner" \in sourceCode ]
    IN  IF resp.kind = "throw" \/ (resp.kind = "ok" /\ resp.isNull)
        THEN init          \* caught before rugPullRisk is computed
        ELSE [ flags EXCEPT !.rugPullRisk = calculateRugPullRisk(flags) ]

getDefaultSecurityAnalysis ==
    [ isVerified            |-> FALSE,
      hasProxyContract      |-> FALSE,
      hasMintFunction       |-> FALSE,
      hasPauseFunction      |-> FALSE,
      hasBlacklistFunction  |-> FALSE,
      hasOwnershipRenounced |-> FALSE,
      rugPullRisk           |-> 50 ]

---------------------------------------------------------------------------
(* Holder adapter *)

\* The longest holder list a response carries in the model
MaxHolders == 2

QuantitySamples == { <<>>, <<"1">>, <<"4">> }

parseQuantity(s) ==
    CASE s = "0" -> 0 [] s = "1" -> 1 [] s = "2" -> 2 [] s = "4" -> 4
      [] OTHER -> NaN

HolderLists ==
    UNION { [1..n -> [TokenHolderQuantity : QuantitySamples]] : n \in 0..MaxHolders }

HolderResponses ==
    { [kind |-> "throw", isNull |-> FALSE, status |-> "0", result |-> <<>>],
      [kind |-> "notok", isNull |-> FALSE, status |-> "0", result |-> <<>>],
      [kind |-> "ok",    isNull |-> TRUE,  status |-> "0", result |-> <<>>],
      [kind |-> "ok",    isNull |-> FALSE, status |-> "0", result |-> <<>>] }
    \cup { [kind |-> "ok", isNull |-> FALSE, status |-> "1", result |-> hs] :
             hs \in HolderLists }

\* Number.parseFloat(holder.TokenHolderQuantity || "0")
Quantity(holder) == parseQuantity(OrString(holder.TokenHolderQuantity, "0"))

RECURSIVE SumQuantities(_)
SumQuantities(holders) ==
    IF holders = <<>> THEN 0
    ELSE Quantity(Head(holders)) + SumQuantities(Tail(holders))

\* Array.prototype.slice(0, k)
Slice(arr, k) == SubSeq(arr, 1, Min(k, Len(arr)))

\* insertion of x into an ascending sequence
RECURSIVE Insert(_, _)
Insert(x, sorted) ==
    IF sorted = <<>> THEN <<x>>
    ELSE IF x <= Head(sorted) THEN <<x>> \o sorted
    ELSE <<Head(sorted)>> \o Insert(x, Tail(sorted))

\* .map(parse).filter(amount > 0).sort(ascending)
RECURSIVE SortedHoldings(_)
SortedHoldings(holders) ==
    IF holders = <<>> THEN <<>>
    ELSE LET q == Quantity(Head(holders))
             rest == SortedHoldings(Tail(holders))
         IN IF q # NaN /\ q > 0 THEN Insert(q, rest) ELSE rest

RECURSIVE SumSeq(_)
SumSeq(s) == IF s = <<>> THEN 0 ELSE Head(s) + SumSeq(Tail(s))

RECURSIVE WeightedSum(_, _)
WeightedSum(s, i) ==
    IF s = <<>> THEN 0 ELSE i * Head(s) + WeightedSum(Tail(s), i + 1)

\* faulty variant: without the guards for an empty list and a zero sum, so
\* that 0/0 yields NaN
calculateDistributionScoreNoGuards(holders, totalSupply) ==
    LET sortedHoldings == SortedHoldings(holders)
        n == Len(sortedHoldings)
        sum == SumSeq(sortedHoldings)
        weightedSum == WeightedSum(sortedHoldings, 1)
        num == 100 * ((2 * n + 1) * sum - 2 * weightedSum)
        den == n * sum
    IN  IF n = 0 \/ sum = 0 THEN [n |-> NaN, d |-> 1]
        ELSE IF num < 0 THEN Frac(0, 1)
        ELSE IF num > 100 * den THEN Frac(100, 1)
        ELSE Frac(num, den)

\* faulty variant: the ranks of the weighted sum counted from 0
calculateDistributionScoreZeroBased(holders, totalSupply) ==
    IF Len(holders) = 0 \/ totalSupply = 0 THEN Frac(0, 1)
    ELSE LET sortedHoldings == SortedHoldings(holders)
             n == Len(sortedHoldings)
             sum == SumSeq(sortedHoldings)
             weightedSum == WeightedSum(sortedHoldings, 0)
             num == 100 * ((2 * n + 1) * sum - 2 * weightedSum)
             den == n * sum
         IN IF n = 0 \/ sum = 0 THEN Frac(0, 1)
            ELSE IF num < 0 THEN Frac(0, 1)
            ELSE IF num > 100 * den THEN Frac(100, 1)
            ELSE Frac(num, den)

\* faulty variant: gini * 100 where the code has (1 - gini) * 100
calculateDistributionScoreGini(holders, totalSupply) ==
    IF Len(holders) = 0 \/ totalSupply = 0 THEN Frac(0, 1)
    ELSE LET sortedHoldings == SortedHoldings(holders)
             n == Len(sortedHoldings)
             sum == SumSeq(sortedHoldings)
             weightedSum == WeightedSum(sortedHoldings, 1)
             num == 100 * (2 * weightedSum - (n + 1) * sum)
             den == n * sum
         IN IF n = 0 \/ sum = 0 THEN Frac(0, 1)
            ELSE IF num < 0 THEN Frac(0, 1)
            ELSE IF num > 100 * den THEN Frac(100, 1)
            ELSE Frac(num, den)

\* (1 - gini) * 100 with gini = 2*weightedSum/(n*sum) - (n+1)/n, clamped to
\* [0, 100], as the exact fraction.  The double the code computes is this
\* value up to rounding, and is this value where both quotients of gini are
\* the same real number (then gini is exactly 0) on integer balances whose
\* sums are below 2^53.
calculateDistributionScore(holders, totalSupply) ==
    IF Len(holders) = 0 \/ totalSupply = 0 THEN Frac(0, 1)
    ELSE LET sortedHoldings == SortedHoldings(holders)
             n == Len(sortedHoldings)
             sum == SumSeq(sortedHoldings)
             weightedSum == WeightedSum(sortedHoldings, 1)
             num == 100 * ((2 * n + 1) * sum - 2 * weightedSum)
             den == n * sum
         IN IF n = 0 \/ sum = 0 THEN Frac(0, 1)
            ELSE IF num < 0 THEN Frac(0, 1)
            ELSE IF num > 100 * den THEN Frac(100, 1)
            ELSE Frac(num, den)

getDefaultHolderAnalysis ==
    [ totalHolders           |-> 0,
      top10HoldersPercentage |-> Frac(100, 1),
      creatorPercentage      |-> Frac(100, 1),
      distributionScore      |-> Frac(0, 1) ]

\* faulty variant: the rows are used whatever the status of the answer
analyzeHolderDistributionAnyStatus(resp) ==
    IF resp.kind = "ok" /\ ~resp.isNull /\ Len(resp.result) > 0
    THEN LET holders == resp.result
             totalSupplyFromHolders == SumQuantities(holders)
             top10Supply == SumQuantities(Slice(holders, 10))
             creatorBalance == Quantity(holders[1])
         IN [ totalHolders |-> Len(holders),
              top10HoldersPercentage |->
                  IF totalSupplyFromHolders > 0
                  THEN Frac(top10Supply * 100, totalSupplyFromHolders)
                  ELSE Frac(100, 1),
              creatorPercentage |->
                  IF totalSupplyFromHolders > 0
                  THEN Frac(creatorBalance * 100, totalSupplyFromHolders)
                  ELSE Frac(100, 1),
              distributionScore |->
                  calculateDistributionScore(holders, totalSupplyFromHolders) ]
    ELSE getDefaultHolderAnalysis

analyzeHolderDistribution(resp) ==
    IF resp.kind = "ok" /\ ~resp.isNull /\ resp.status = "1" /\ Len(resp.result) > 0
    THEN LET holders == resp.result
             totalSupplyFromHolders == SumQuantities(holders)
             top10Supply == SumQuantities(Slice(holders, 10))
             creatorBalance == Quantity(holders[1])
         IN [ totalHolders |-> Len(holders),
              top10HoldersPercentage |->
                  IF totalSupplyFromHolders > 0
                  THEN Frac(top10Supply * 100, totalSupplyFromHolders)
                  ELSE Frac(100, 1),
              creatorPercentage |->
                  IF totalSupplyFromHolders > 0
                  THEN Frac(creatorBalance * 100, totalSupplyFromHolders)
                  ELSE Frac(100, 1),
              distributionScore |->
                  calculateDistributionScore(holders, totalSupplyFromHolders) ]
    ELSE getDefaultHolderAnalysis

---------------------------------------------------------------------------
(* Risk factor derivation *)

Factor(category, severity, description, impact) ==
    [ category |-> category, severity |-> severity,
      description |-> description, impact |-> impact ]

FUnverified == Factor("Security", "high",
                      "Contract source code is not verified on Etherscan", 25)
FMint       == Factor("Security", "medium",
                      "Contract has mint function - supply can be increased", 15)
FBlacklist  == Factor("Security", "high",
                      "Contract can blacklist addresses from trading", 25)
FPause      == Factor("Security", "medium",
                      "Contract can be paused, stopping all transfers", 15)
FProxy      == Factor("Security", "medium",
                      "Proxy contract - logic can be upgraded", 20)
FVolume     == Factor("Market", "medium",
                      "Very low trading volume (< $10,000 daily)", 15)
FMarketCap  == Factor("Market", "medium",
                      "Very low market cap (< $100,000)", 10)
FPriceDrop  == Factor("Market", "high",
                      "Severe price drop (>50%) in last 24 hours", 20)
FTop10      == Factor("Distribution", "high",
                      "Top 10 holders control more than 80% of supply", 25)
\* faulty variant: the critical factor with the impact of a medium one
FCreatorLight == Factor("Distribution", "critical",
                        "Creator/deployer holds more than 50% of total supply", 10)
FCreator    == Factor("Distribution", "critical",
                      "Creator/deployer holds more than 50% of total supply", 30)
FFewHolders == Factor("Distribution", "medium",
                      "Very few token holders (< 100)", 10)
FMetadata   == Factor("Metadata", "medium",
                      "Missing or invalid token name/symbol", 10)
FSupply     == Factor("Tokenomics", "medium",
                      "Extremely large total supply (>1 trillion tokens)", 15)

\* riskFactors.push(f) under a condition
PushIf(cond, f) == IF cond THEN <<f>> ELSE <<>>

\* Number.parseFloat(totalSupply) / Math.pow(10, decimals) > 1e12, on a
\* mantissa m in 0..9 and an exponent
SupplyExceedsTrillion(p, decimals) ==
    /\ p.m # NaN
    /\ p.m > 0
    /\ \/ p.e - decimals > 12
       \/ p.e - decimals = 12 /\ p.m > 1

\* faulty variant: an unverified contract reports that factor alone
SecurityFactorsUnverifiedOnly(s) ==
    IF s.isVerified = FALSE THEN <<FUnverified>>
    ELSE PushIf(s.hasMintFunction, FMint)
         \o PushIf(s.hasBlacklistFunction, FBlacklist)
         \o PushIf(s.hasPauseFunction, FPause)
         \o PushIf(s.hasProxyContract, FProxy)

SecurityFactors(s) ==
    PushIf(s.isVerified = FALSE, FUnverified)
    \o PushIf(s.hasMintFunction, FMint)
    \o PushIf(s.hasBlacklistFunction, FBlacklist)
    \o PushIf(s.hasPauseFunction, FPause)
    \o PushIf(s.hasProxyContract, FProxy)

\* faulty variant: <= where the code has <
MarketFactorsInclusive(marketData) ==
    IF marketData = <<>> THEN <<>>
    ELSE PushIf(marketData[1].volume24h <= 10000, FVolume)
         \o PushIf(marketData[1].marketCap <= 100000, FMarketCap)
         \o PushIf(marketData[1].priceChange24h <= -50, FPriceDrop)

MarketFactors(marketData) ==
    IF marketData = <<>> THEN <<>>
    ELSE PushIf(marketData[1].volume24h < 10000, FVolume)
         \o PushIf(marketData[1].marketCap < 100000, FMarketCap)
         \o PushIf(marketData[1].priceChange24h < -50, FPriceDrop)

\* faulty variant: >= and <= where the code has > and <
DistributionFactorsInclusive(h) ==
    IF h.totalHolders > 0
    THEN PushIf(h.top10HoldersPercentage.n >= 80 * h.top10HoldersPercentage.d, FTop10)
         \o PushIf(h.creatorPercentage.n >= 50 * h.creatorPercentage.d, FCreator)
         \o PushIf(h.totalHolders <= 100, FFewHolders)
    ELSE <<>>

\* faulty variant: the holder rules without the totalHolders > 0 guard
DistributionFactorsUnguarded(h) ==
    PushIf(FracGt(h.top10HoldersPercentage, 80), FTop10)
    \o PushIf(FracGt(h.creatorPercentage, 50), FCreator)
    \o PushIf(h.totalHolders < 100, FFewHolders)

DistributionFactors(h) ==
    IF h.totalHolders > 0
    THEN PushIf(FracGt(h.top10HoldersPercentage, 80), FTop10)
         \o PushIf(FracGt(h.creatorPercentage, 50), FCreator)
         \o PushIf(h.totalHolders < 100, FFewHolders)
    ELSE <<>>

MetadataFactors(t) ==
    PushIf(t.name = "Unknown" \/ t.symbol = "UNKNOWN", FMetadata)

TokenomicsFactors(t) ==
    PushIf( /\ t.totalSupply # ""
            /\ t.decimals # 0 /\ t.decimals # NaN
            /\ SupplyExceedsTrillion(parseFloat(t.totalSupply), t.decimals),
            FSupply )

\* faulty variant: the metadata rule evaluated first
identifyRiskFactorsFilteredMetadataFirst(a) ==
    MetadataFactors(a.tokenData)
    \o SecurityFactors(a.securityAnalysis)
    \o MarketFactors(a.marketData)
    \o DistributionFactors(a.holderAnalysis)
    \o TokenomicsFactors(a.tokenData)

identifyRiskFactorsFiltered(a) ==
    SecurityFactors(a.securityAnalysis)
    \o MarketFactors(a.marketData)
    \o DistributionFactors(a.holderAnalysis)
    \o MetadataFactors(a.tokenData)
    \o TokenomicsFactors(a.tokenData)

---------------------------------------------------------------------------
(* Scoring *)

\* riskFactors.reduce((sum, factor) => sum + factor.impact, 0)
RECURSIVE ReduceImpact(_, _)
ReduceImpact(riskFactors, sum) ==
    IF riskFactors = <<>> THEN sum
    ELSE ReduceImpact(Tail(riskFactors), sum + Head(riskFactors).impact)

\* faulty variant: the sum without Math.min(.., 100)
calculateOverallRiskScoreUncapped(riskFactors) == ReduceImpact(riskFactors, 0)

calculateOverallRiskScore(riskFactors) ==
    LET totalImpact == ReduceImpact(riskFactors, 0)
    IN  Min(totalImpact, 100)

\* faulty variant: < where the code has <=
determineRiskLevelExclusive(score) ==
    IF score < 10 THEN "Very Low"
    ELSE IF score < 25 THEN "Low"
    ELSE IF score < 50 THEN "Medium"
    ELSE IF score < 75 THEN "High"
    ELSE "Very High"

determineRiskLevel(score) ==
    IF score <= 10 THEN "Very Low"
    ELSE IF score <= 25 THEN "Low"
    ELSE IF score <= 50 THEN "Medium"
    ELSE IF score <= 75 THEN "High"
    ELSE "Very High"

\* riskFactors.filter((f) => f.severity === severity).length
CountSeverity(riskFactors, severity) ==
    Cardinality({ i \in 1..Len(riskFactors) : riskFactors[i].severity = severity })

\* the messages, without their leading emoji
MsgAvoid     == "AVOID: This token has critical security issues. Do not invest."
MsgHighRisk  == "HIGH RISK: This token has multiple serious red flags. Extreme caution advised."
MsgCaution   == "CAUTION: This token has significant risks. Only invest what you can afford to lose."
MsgModerate  == "MODERATE: This token has some risks but may be acceptable for experienced investors."
MsgLowRisk   == "LOW RISK: This token appears relatively safe but always DYOR."
MsgVeryLow   == "VERY LOW RISK: This token shows good fundamentals and security practices."
MsgBluechip  == "This is a well-known, established token. No major risks detected."

\* faulty variant: the tier rules ahead of the critical-factor rule
generateRecommendationTierFirst(a) ==
    IF a.riskLevel = "Very High" \/ CountSeverity(a.riskFactors, "high") >= 3
    THEN MsgHighRisk
    ELSE IF a.riskLevel = "High" THEN MsgCaution
    ELSE IF CountSeverity(a.riskFactors, "critical") > 0 THEN MsgAvoid
    ELSE IF a.riskLevel = "Medium" THEN MsgModerate
    ELSE IF a.riskLevel = "Low" THEN MsgLowRisk
    ELSE MsgVeryLow

generateRecommendation(a) ==
    LET criticalRisks == CountSeverity(a.riskFactors, "critical")
        highRisks == CountSeverity(a.riskFactors, "high")
    IN  IF criticalRisks > 0 THEN MsgAvoid
        ELSE IF a.riskLevel = "Very High" \/ highRisks >= 3 THEN MsgHighRisk
        ELSE IF a.riskLevel = "High" THEN MsgCaution
        ELSE IF a.riskLevel = "Medium" THEN MsgModerate
        ELSE IF a.riskLevel = "Low" THEN MsgLowRisk
        ELSE MsgVeryLow

---------------------------------------------------------------------------
(* The POST handler *)

Adapters == {"metadata", "market", "security", "holder"}

Pending == [status |-> "pending", value |-> <<>>, nodata |-> FALSE]

\* a promise fulfilled with value v; nodata records that the adapter's
\* source gave it nothing (every fetch of the adapter failed)
Fulfilled(v, nodata) == [status |-> "fulfilled", value |-> <<v>>, nodata |-> nodata]

NoResponse == [status |-> 0, error |-> ""]

NoCall == [fn |-> "none", args |-> <<>>]

Failed(resp) == resp.kind # "ok"

\* faulty variant: resume as soon as one promise has settled
AnySettled(s) == \E a \in Adapters : s[a].status # "pending"

\* Promise.allSettled resolves once no promise is pending
AllSettled(s) == \A a \in Adapters : s[a].status # "pending"

\* status === "fulfilled" ? value : default
Resolve(p, default) == IF p.status = "fulfilled" THEN p.value[1] ELSE default

BluechipAnalysis(tokenData) ==
    [ tokenData        |-> tokenData,
      marketData       |-> <<>>,
      securityAnalysis |-> getDefaultSecurityAnalysis,
      holderAnalysis   |-> getDefaultHolderAnalysis,
      riskFactors      |-> <<>>,
      overallRiskScore |-> 0,
      riskLevel        |-> "Very Low",
      recommendation   |-> MsgBluechip ]

\* lines 788-809: resolve the four settlements, then derive and score
BuildAnalysis(contractAddress, s) ==
    LET a0 == [ tokenData        |-> Resolve(s["metadata"], getDefaultTokenData(contractAddress)),
                marketData       |-> Resolve(s["market"], <<>>),
                securityAnalysis |-> Resolve(s["security"], getDefaultSecurityAnalysis),
                holderAnalysis   |-> Resolve(s["holder"], getDefaultHolderAnalysis),
                riskFactors      |-> <<>>,
                overallRiskScore |-> 0,
                riskLevel        |-> "Medium",
                recommendation   |-> "" ]
        a1 == [a0 EXCEPT !.riskFactors = identifyRiskFactorsFiltered(a0)]
        a2 == [a1 EXCEPT !.overallRiskScore = calculateOverallRiskScore(a1.riskFactors)]
        a3 == [a2 EXCEPT !.riskLevel = determineRiskLevel(a2.overallRiskScore)]
    IN  [a3 EXCEPT !.recommendation = generateRecommendation(a3)]

MainIdle ==
    /\ pc = "idle"
    /\ request = [json |-> FALSE, contractAddress |-> <<>>]
    /\ started = [a \in Adapters |-> 0]
    /\ settled = [a \in Adapters |-> Pending]
    /\ response = NoResponse
    /\ analysis = <<>>
    /\ whitelist = BLUECHIP_WHITELIST

\* the frame of a request: the locals of one invocation of POST
Frame(p, req, st, se, resp, an) ==
    [pc |-> p, request |-> req, started |-> st, settled |-> se,
     response |-> resp, analysis |-> an]

IdleFrame ==
    Frame("idle", [json |-> FALSE, contractAddress |-> <<>>],
          [a \in Adapters |-> 0], [a \in Adapters |-> Pending], NoResponse, <<>>)

\* useState("") / useState(false) / useState(null) / useState("")
PageInitial ==
    [ contractAddress |-> <<>>,
      isAnalyzing     |-> FALSE,
      result          |-> <<>>,
      error           |-> "",
      at              |-> "idle",   \* where handleAnalyze is suspended
      sent            |-> 0,        \* requests sent to /api/analyze-token
      outcome         |-> <<>> ]    \* how the fetch in flight settled

Init ==
    /\ MainIdle
    /\ peer = IdleFrame
    /\ page = PageInitial
    /\ call = NoCall
    /\ ret = <<>>

\* a request arrives; the handler awaits request.json()
Receive ==
    /\ pc = "idle"
    /\ \E req \in Requests : request' = req
    /\ pc' = "parsing"
    /\ UNCHANGED <<started, settled, response, analysis, call, ret, whitelist, peer, page>>

\* request.json() throws: the catch answers 500
ParseFail ==
    /\ pc = "parsing"
    /\ ~request.json
    /\ response' = [status |-> 500,
                    error |-> "Failed to perform token analysis. Please try again."]
    /\ pc' = "done"
    /\ UNCHANGED <<request, started, settled, analysis, call, ret, whitelist, peer, page>>

RejectMissing ==
    /\ pc = "parsing"
    /\ request.json
    /\ request.contractAddress = <<>>
    /\ response' = [status |-> 400, error |-> "Contract address is required"]
    /\ pc' = "done"
    /\ UNCHANGED <<request, started, settled, analysis, call, ret, whitelist, peer, page>>

RejectInvalid ==
    /\ pc = "parsing"
    /\ request.json
    /\ request.contractAddress # <<>>
    /\ ~AddressRegex(request.contractAddress)
    /\ response' = [status |-> 400, error |-> "Invalid Ethereum address format"]
    /\ pc' = "done"
    /\ UNCHANGED <<request, started, settled, analysis, call, ret, whitelist, peer, page>>

\* faulty variant: the four adapters are invoked before the allowlist
\* answer is built
StartBluechipAll ==
    /\ pc = "parsing"
    /\ request.json
    /\ request.contractAddress # <<>>
    /\ AddressRegex(request.contractAddress)
    /\ isBluechipToken(request.contractAddress)
    /\ started' = [a \in Adapters |-> started[a] + 1]
    /\ pc' = "bluechip"
    /\ UNCHANGED <<request, settled, response, analysis, call, ret, whitelist, peer, page>>

\* bluechip: only getTokenMetadata is invoked and awaited
StartBluechip ==
    /\ pc = "parsing"
    /\ request.json
    /\ request.contractAddress # <<>>
    /\ AddressRegex(request.contractAddress)
    /\ isBluechipToken(request.contractAddress)
    /\ started' = [started EXCEPT !["metadata"] = @ + 1]
    /\ pc' = "bluechip"
    /\ UNCHANGED <<request, settled, response, analysis, call, ret, whitelist, peer, page>>

\* Promise.allSettled([...]): the four adapters are invoked one after the
\* other in the same turn, each running up to its first await
StartAnalysis ==
    /\ pc = "parsing"
    /\ request.json
    /\ request.contractAddress # <<>>
    /\ AddressRegex(request.contractAddress)
    /\ ~isBluechipToken(request.contractAddress)
    /\ started' = [a \in Adapters |-> started[a] + 1]
    /\ pc' = "waiting"
    /\ UNCHANGED <<request, settled, response, analysis, call, ret, whitelist, peer, page>>

Running(a) ==
    /\ pc \in {"bluechip", "waiting"}
    /\ started[a] > 0
    /\ settled[a].status = "pending"

SettleMetadata ==
    /\ Running("metadata")
    /\ \E rName \in NameResponses, rSymbol \in SymbolResponses,
          rDecimals \in DecimalsResponses, rSupply \in SupplyResponses :
          settled' = [settled EXCEPT !["metadata"] =
              Fulfilled(getTokenMetadata(request.contractAddress,
                                         rName, rSymbol, rDecimals, rSupply),
                        Failed(rName) /\ Failed(rSymbol)
                        /\ Failed(rDecimals) /\ Failed(rSupply))]
    /\ UNCHANGED <<pc, request, started, response, analysis, call, ret, whitelist, peer, page>>

SettleMarket ==
    /\ Running("market")
    /\ \E resp \in MarketResponses :
          settled' = [settled EXCEPT !["market"] =
              Fulfilled(getMarketData(resp), Failed(resp))]
    /\ UNCHANGED <<pc, request, started, response, analysis, call, ret, whitelist, peer, page>>

SettleSecurity ==
    /\ Running("security")
    /\ \E resp \in SecurityResponses :
          settled' = [settled EXCEPT !["security"] =
              Fulfilled(performSecurityAnalysis(resp), Failed(resp))]
    /\ UNCHANGED <<pc, request, started, response, analysis, call, ret, whitelist, peer, page>>

SettleHolder ==
    /\ Running("holder")
    /\ \E resp \in HolderResponses :
          settled' = [settled EXCEPT !["holder"] =
              Fulfilled(analyzeHolderDistribution(resp), Failed(resp))]
    /\ UNCHANGED <<pc, request, started, response, analysis, call, ret, whitelist, peer, page>>

\* the await of getTokenMetadata resumes on the allowlist path
RespondBluechip ==
    /\ pc = "bluechip"
    /\ settled["metadata"].status # "pending"
    /\ IF settled["metadata"].status = "fulfilled"
       THEN /\ analysis' = <<BluechipAnalysis(settled["metadata"].value[1])>>
            /\ response' = [status |-> 200, error |-> ""]
       ELSE /\ analysis' = analysis
            /\ response' = [status |-> 500,
                            error |-> "Failed to perform token analysis. Please try again."]
    /\ pc' = "done"
    /\ UNCHANGED <<request, started, settled, call, ret, whitelist, peer, page>>

\* the await of Promise.allSettled can resume
AggregateReady ==
    /\ pc = "waiting"
    /\ AllSettled(settled)

\* faulty variant: the settlements are read from a record shared by the
\* requests in progress
AggregateShared ==
    /\ AggregateReady
    /\ analysis' = <<BuildAnalysis(request.contractAddress,
                                   IF AllSettled(peer.settled) THEN peer.settled
                                   ELSE settled)>>
    /\ response' = [status |-> 200, error |-> ""]
    /\ pc' = "done"
    /\ UNCHANGED <<request, started, settled, call, ret, whitelist, peer, page>>

\* the await of Promise.allSettled resumes
Aggregate ==
    /\ AggregateReady
    /\ analysis' = <<BuildAnalysis(request.contractAddress, settled)>>
    /\ response' = [status |-> 200, error |-> ""]
    /\ pc' = "done"
    /\ UNCHANGED <<request, started, settled, call, ret, whitelist, peer, page>>

Next ==
    \/ Receive
    \/ ParseFail
    \/ RejectMissing
    \/ RejectInvalid
    \/ StartBluechip
    \/ StartAnalysis
    \/ SettleMetadata
    \/ SettleMarket
    \/ SettleSecurity
    \/ SettleHolder
    \/ RespondBluechip
    \/ Aggregate

Spec == Init /\ [][Next]_vars

---------------------------------------------------------------------------
(* Two requests in progress at once *)

CurrentFrame == Frame(pc, request, started, settled, response, analysis)

\* The handler that is running reaches an await (or its end) and the event
\* loop resumes the other request: the locals of the two invocations change
\* places; the module-level state stays where it is.
Switch ==
    /\ peer' = CurrentFrame
    /\ pc' = peer.pc
    /\ request' = peer.request
    /\ started' = peer.started
    /\ settled' = peer.settled
    /\ response' = peer.response
    /\ analysis' = peer.analysis
    /\ UNCHANGED <<call, ret, whitelist, page>>

\* the bodies two concurrent requests carry
ConcurrentRequests ==
    { [json |-> FALSE, contractAddress |-> <<>>],
      [json |-> TRUE,  contractAddress |-> <<>>],
      [json |-> TRUE,  contractAddress |-> ADDR_NONHEX],
      [json |-> TRUE,  contractAddress |-> ADDR_USDT],
      [json |-> TRUE,  contractAddress |-> ADDR_SHIB_CHECKSUM] }

\* the one answer each adapter gets in this search when its source answers
ConcurrentSecurityAnswer ==
    performSecurityAnalysis(
        [kind |-> "ok", isNull |-> FALSE,
         SourceCode |-> <<{"contract", "function mint("}>>])

ConcurrentHolderAnswer ==
    analyzeHolderDistribution(
        [kind |-> "ok", isNull |-> FALSE, status |-> "1",
         result |-> <<[TokenHolderQuantity |-> <<"1">>],
                      [TokenHolderQuantity |-> <<"4">>]>>])

\* each adapter either gets nothing from its source or gets that answer
ConcurrentSettlement(a, p) ==
    \/ p.status = "pending"
    \/ p.nodata
    \/ /\ a = "metadata"
       /\ p.value[1].name = "Tether USD" /\ p.value[1].symbol = "USDT"
       /\ p.value[1].decimals = 6
       /\ p.value[1].totalSupply = "10000000000000000000"
    \/ /\ a = "market"
       /\ p.value[1] # <<>>
       /\ p.value[1][1].marketCap = 100000 /\ p.value[1][1].volume24h = 10000
    \/ a = "security" /\ p.value[1] = ConcurrentSecurityAnswer
    \/ a = "holder" /\ p.value[1] = ConcurrentHolderAnswer

ConcurrentInputs ==
    /\ request \in ConcurrentRequests
    /\ \A a \in Adapters : ConcurrentSettlement(a, settled[a])

\* the steps of the handler, on the inputs above, and the change of request
ConcurrentNext ==
    \/ Receive /\ ConcurrentInputs'
    \/ ParseFail
    \/ RejectMissing
    \/ RejectInvalid
    \/ StartBluechip
    \/ StartAnalysis
    \/ SettleMetadata /\ ConcurrentInputs'
    \/ SettleMarket /\ ConcurrentInputs'
    \/ SettleSecurity /\ ConcurrentInputs'
    \/ SettleHolder /\ ConcurrentInputs'
    \/ RespondBluechip
    \/ Aggregate
    \/ Switch

ConcurrentSpec == Init /\ [][ConcurrentNext]_vars

---------------------------------------------------------------------------
(* The page: handleAnalyze, handleExampleClick and the address field *)

EXAMPLE_USDT ==
    <<"0","x","d","A","C","1","7","F","9","5","8","D","2","e","e","5","2","3",
    "a","2","2","0","6","2","0","6","9","9","4","5","9","7","C","1","3","D",
    "8","3","1","e","c","7">>

EXAMPLE_LINK ==
    <<"0","x","5","1","4","9","1","0","7","7","1","A","F","9","C","a","6","5",
    "6","a","f","8","4","0","d","f","f","8","3","E","8","2","6","4","E","c",
    "F","9","8","6","C","A">>

EXAMPLE_UNI ==
    <<"0","x","1","f","9","8","4","0","a","8","5","d","5","a","F","5","b","f",
    "1","D","1","7","6","2","F","9","2","5","B","D","A","D","d","C","4","2",
    "0","1","F","9","8","4">>

EXAMPLE_TOKENS == <<EXAMPLE_USDT, EXAMPLE_LINK, EXAMPLE_UNI, ADDR_WETH_CHECKSUM>>

\* what a user types into the field: nothing, blanks, a well-formed address
\* with blanks around it, a short one and one with a non-hexadecimal digit
TypedAddresses ==
    { <<>>, <<" ", " ">>, <<" ">> \o ADDR_SHIB_CHECKSUM \o <<" ">>,
      ADDR_SHORT, ADDR_NONHEX }

\* String.prototype.trim on a tuple of characters
trimChars(s) ==
    LET solid == {i \in 1..Len(s) : s[i] # " "}
    IN  IF solid = {} THEN <<>>
        ELSE SubSeq(s, CHOOSE i \in solid : \A j \in solid : i <= j,
                       CHOOSE i \in solid : \A j \in solid : j <= i)

\* the submissions a page makes are capped for the search
MaxSubmissions == 2

\* The replies of the route: its result with 200, its error bodies, and what
\* the transport can add: a rejected fetch, a body that is not JSON, a JSON
\* null and an error body without (or with an empty) error field.
Rejection(isError, message) ==
    [kind |-> "reject", isError |-> isError, message |-> message,
     status |-> 0, json |-> FALSE, isNull |-> FALSE, error |-> <<>>, data |-> <<>>]

Reply(status, json, isNull, error, data) ==
    [kind |-> "response", isError |-> FALSE, message |-> "",
     status |-> status, json |-> json, isNull |-> isNull, error |-> error,
     data |-> data]

RouteErrors ==
    { <<400, "Contract address is required">>,
      <<400, "Invalid Ethereum address format">>,
      <<404, "Token contract not found or not a valid ERC-20 token. Please verify the contract address.">>,
      <<401, "API authentication failed. Please check your Tatum API key configuration.">>,
      <<429, "Rate limit exceeded. Please try again in a moment.">>,
      <<500, "Failed to perform token analysis. Please try again.">> }

FetchOutcomes ==
    { Rejection(TRUE, "Failed to fetch"), Rejection(FALSE, ""),
      Reply(200, TRUE, FALSE, <<>>, <<"analysis">>),
      Reply(200, FALSE, FALSE, <<>>, <<>>) }
    \cup { Reply(e[1], TRUE, FALSE, <<e[2]>>, <<>>) : e \in RouteErrors }
    \cup UNION { { Reply(st, TRUE, FALSE, <<>>, <<>>),
                    Reply(st, TRUE, FALSE, <<"">>, <<>>),
                    Reply(st, FALSE, FALSE, <<>>, <<>>),
                    Reply(st, TRUE, TRUE, <<>>, <<>>) } : st \in {403, 404, 502} }

\* Response.ok
ok(resp) == resp.status \in 200..299

HTTPMessage(status) == "HTTP " \o ToString(status) \o ": Analysis failed"

\* String.prototype.includes for the status codes the handler looks for: of
\* the messages that reach the catch only the HTTP fallbacks hold a code
includes(str, code) == str = HTTPMessage(code)

\* an Error with this message, or a thrown value that is not an Error
Thrown(isError, message) == [isError |-> isError, message |-> message]

\* the catch block: the message shown for a thrown value
catchMessage(err) ==
    LET errorMessage == IF err.isError THEN err.message
                        ELSE "An error occurred during analysis"
    IN  IF includes(errorMessage, 404)
        THEN errorMessage \o "\n\nTip: Make sure the address is a valid ERC-20 token contract on Ethereum mainnet."
        ELSE IF includes(errorMessage, 401) \/ includes(errorMessage, 403)
        THEN errorMessage \o "\n\nTip: Check if the API keys are properly configured."
        ELSE errorMessage

\* faulty variant: the catch without the finally
CaughtStillAnalyzing(pg, err) ==
    [pg EXCEPT !.error = catchMessage(err), !.at = "idle", !.outcome = <<>>]

\* catch, then finally
Caught(pg, err) ==
    [pg EXCEPT !.error = catchMessage(err), !.isAnalyzing = FALSE,
               !.at = "idle", !.outcome = <<>>]

\* onChange of the address field
ChangeAddress ==
    /\ \E a \in TypedAddresses : page' = [page EXCEPT !.contractAddress = a]
    /\ UNCHANGED <<pc, request, started, settled, response, analysis, call, ret, whitelist, peer>>

handleExampleClick ==
    /\ \E i \in 1..Len(EXAMPLE_TOKENS) :
          page' = [page EXCEPT !.contractAddress = EXAMPLE_TOKENS[i],
                               !.error = "", !.result = <<>>]
    /\ UNCHANGED <<pc, request, started, settled, response, analysis, call, ret, whitelist, peer>>

\* the submit button is disabled while isAnalyzing
SubmitEmpty ==
    /\ ~page.isAnalyzing
    /\ trimChars(page.contractAddress) = <<>>
    /\ page' = [page EXCEPT !.error = "Please enter a contract address"]
    /\ UNCHANGED <<pc, request, started, settled, response, analysis, call, ret, whitelist, peer>>

SubmitMalformed ==
    /\ ~page.isAnalyzing
    /\ trimChars(page.contractAddress) # <<>>
    /\ ~AddressRegex(trimChars(page.contractAddress))
    /\ page' = [page EXCEPT !.error =
          "Please enter a valid Ethereum contract address (0x followed by 40 hexadecimal characters)"]
    /\ UNCHANGED <<pc, request, started, settled, response, analysis, call, ret, whitelist, peer>>

\* the address passes: the three setters, then fetch is called and awaited
SubmitValid ==
    /\ ~page.isAnalyzing
    /\ page.sent < MaxSubmissions
    /\ trimChars(page.contractAddress) # <<>>
    /\ AddressRegex(trimChars(page.contractAddress))
    /\ page' = [page EXCEPT !.isAnalyzing = TRUE, !.error = "", !.result = <<>>,
                            !.at = "fetch", !.sent = @ + 1]
    /\ UNCHANGED <<pc, request, started, settled, response, analysis, call, ret, whitelist, peer>>

\* the request is answered, or fails on the way
FetchSettles ==
    /\ page.at = "fetch"
    /\ page.outcome = <<>>
    /\ \E o \in FetchOutcomes : page' = [page EXCEPT !.outcome = <<o>>]
    /\ UNCHANGED <<pc, request, started, settled, response, analysis, call, ret, whitelist, peer>>

\* the await of fetch resumes: a rejection goes to the catch, a response has
\* its json() called and awaited
ResumeFetch ==
    /\ page.at = "fetch"
    /\ page.outcome # <<>>
    /\ LET o == page.outcome[1]
       IN  page' = IF o.kind = "reject"
                   THEN Caught(page, Thrown(o.isError, o.message))
                   ELSE [page EXCEPT !.at = "json"]
    /\ UNCHANGED <<pc, request, started, settled, response, analysis, call, ret, whitelist, peer>>

\* the await of response.json() resumes
ResumeJson ==
    /\ page.at = "json"
    /\ LET resp == page.outcome[1]
       IN  page' =
             IF ~resp.json
             THEN Caught(page, Thrown(TRUE, "Unexpected token '<' is not valid JSON"))
             ELSE IF ~ok(resp)
             THEN IF resp.isNull
                  THEN Caught(page, Thrown(TRUE, "Cannot read properties of null (reading 'error')"))
                  ELSE Caught(page, Thrown(TRUE,
                          IF resp.error # <<>> /\ resp.error[1] # ""
                          THEN resp.error[1] ELSE HTTPMessage(resp.status)))
             ELSE [page EXCEPT !.result = resp.data, !.isAnalyzing = FALSE,
                               !.at = "idle", !.outcome = <<>>]
    /\ UNCHANGED <<pc, request, started, settled, response, analysis, call, ret, whitelist, peer>>

PageNext ==
    \/ ChangeAddress
    \/ handleExampleClick
    \/ SubmitEmpty
    \/ SubmitMalformed
    \/ SubmitValid
    \/ FetchSettles
    \/ ResumeFetch
    \/ ResumeJson

\* a continuation whose promise has settled is run by the event loop
PageSpec ==
    /\ Init
    /\ [][PageNext]_vars
    /\ WF_vars(ResumeFetch)
    /\ WF_vars(ResumeJson)

---------------------------------------------------------------------------
(* Legacy scoring path *)

\* String.prototype.trim on the names and symbols of the samples
trim(str) == IF str = " " THEN "" ELSE str

\* what the transaction-history endpoint can answer: the fetch throws, is
\* not OK, or is OK with a body that is null, not an array, or an array
TransactionResponses ==
    { [kind |-> "throw", isNull |-> FALSE, isArray |-> FALSE, length |-> 0],
      [kind |-> "notok", isNull |-> FALSE, isArray |-> FALSE, length |-> 0],
      [kind |-> "ok",    isNull |-> TRUE,  isArray |-> FALSE, length |-> 0],
      [kind |-> "ok",    isNull |-> FALSE, isArray |-> FALSE, length |-> 0] }
    \cup { [kind |-> "ok", isNull |-> FALSE, isArray |-> TRUE, length |-> n] :
             n \in {0, 4, 5, 10} }

BalanceResponses == {"throw", "notok", "ok"}

LegacyTokenData ==
    [ name            : {"Tether USD", "Unknown Token", "", " "},
      symbol          : {"USDT", "UNKNOWN", ""},
      decimals        : {0, 18},
      totalSupply     : {"0", "10000000000000000000"},
      contractAddress : {ADDR_SHIB_CHECKSUM} ]

\* faulty variant: recentlyCreated is left at its initial value
analyzeRedFlagsNoAge(tokenData, transactionResponse, balanceResponse) ==
    [ noNameOrSymbol  |->
          \/ tokenData.name = ""
          \/ tokenData.symbol = ""
          \/ trim(tokenData.name) = ""
          \/ trim(tokenData.symbol) = ""
          \/ tokenData.name = "Unknown Token"
          \/ tokenData.symbol = "UNKNOWN",
      hugeSupply      |->
          /\ tokenData.decimals # NaN
          /\ SupplyExceedsTrillion(parseFloat(tokenData.totalSupply), tokenData.decimals),
      fewTransfers    |->
          IF transactionResponse.kind = "ok"
          THEN \/ transactionResponse.isNull
               \/ ~transactionResponse.isArray
               \/ transactionResponse.length < 5
          ELSE TRUE,
      fewHolders      |-> balanceResponse # "ok",
      recentlyCreated |-> FALSE ]

analyzeRedFlags(tokenData, transactionResponse, balanceResponse) ==
    LET noNameOrSymbol ==
            \/ tokenData.name = ""
            \/ tokenData.symbol = ""
            \/ trim(tokenData.name) = ""
            \/ trim(tokenData.symbol) = ""
            \/ tokenData.name = "Unknown Token"
            \/ tokenData.symbol = "UNKNOWN"
        hugeSupply ==
            /\ tokenData.decimals # NaN
            /\ SupplyExceedsTrillion(parseFloat(tokenData.totalSupply), tokenData.decimals)
        fewTransfers ==
            IF transactionResponse.kind = "ok"
            THEN \/ transactionResponse.isNull
                 \/ ~transactionResponse.isArray
                 \/ transactionResponse.length < 5
            ELSE TRUE       \* not OK, or caught
        fewHolders == balanceResponse # "ok"
    IN  [ noNameOrSymbol  |-> noNameOrSymbol,
          hugeSupply      |-> hugeSupply,
          fewTransfers    |-> fewTransfers,
          fewHolders      |-> fewHolders,
          recentlyCreated |-> fewTransfers ]

calculateRiskScore(redFlags) ==
    Min( (IF redFlags.noNameOrSymbol THEN 25 ELSE 0)
         + (IF redFlags.hugeSupply THEN 20 ELSE 0)
         + (IF redFlags.fewTransfers THEN 20 ELSE 0)
         + (IF redFlags.fewHolders THEN 20 ELSE 0)
         + (IF redFlags.recentlyCreated THEN 15 ELSE 0),
         100 )

getRiskLevel(score) ==
    IF score <= 30 THEN "Low" ELSE IF score <= 70 THEN "Medium" ELSE "High"

---------------------------------------------------------------------------
(* Direct calls of the pure functions *)

\* The longest factor list handed to generateRecommendation directly
MaxFactors == 4

RiskLevels == {"Very Low", "Low", "Medium", "High", "Very High"}

\* One factor of each severity; no rule of the deriver emits "low", which
\* the RiskFactor type allows.
FLow == Factor("Metadata", "low", "Informational", 5)

SampleFactors == {FLow, FMint, FUnverified, FCreator}

SeqUpTo(S, n) == UNION { [1..k -> S] : k \in 0..n }

\* The longest balance list handed to calculateDistributionScore directly
MaxBalances == 4

BalanceSamples == { <<"0">>, <<"1">>, <<"2">>, <<"4">> }

\* holder lists as the holder adapter passes them on
BalanceLists ==
    UNION { [1..n -> [TokenHolderQuantity : BalanceSamples]] : n \in 0..MaxBalances }

\* security profiles: every combination of the flags
SecurityProfiles ==
    { [f EXCEPT !.rugPullRisk = calculateRugPullRisk(f)] :
        f \in [ isVerified            : BOOLEAN,
                hasProxyContract      : BOOLEAN,
                hasMintFunction       : BOOLEAN,
                hasPauseFunction      : BOOLEAN,
                hasBlacklistFunction  : BOOLEAN,
                hasOwnershipRenounced : BOOLEAN,
                rugPullRisk           : {0} ] }

MarketSnapshot(volume24h, marketCap, priceChange24h) ==
    [ price               |-> 1,
      marketCap           |-> marketCap,
      volume24h           |-> volume24h,
      priceChange24h      |-> priceChange24h,
      circulatingSupply   |-> 1000,
      totalSupply         |-> 1000,
      maxSupply           |-> <<>>,
      ath                 |-> 2,
      athChangePercentage |-> -50,
      atl                 |-> 1,
      atlChangePercentage |-> 0 ]

\* null, and snapshots on and just below the thresholds of the market rules
MarketSnapshots ==
    { <<>> }
    \cup { <<MarketSnapshot(v, c, p)>> :
             v \in {0, 9999, 10000}, c \in {99999, 100000}, p \in {-51, -50} }

\* holder profiles on and around the thresholds of the distribution rules
HolderProfiles ==
    [ totalHolders           : {0, 1, 99, 100},
      top10HoldersPercentage : {Frac(80, 1), Frac(161, 2), Frac(100, 1)},
      creatorPercentage      : {Frac(50, 1), Frac(101, 2), Frac(100, 1)},
      distributionScore      : {Frac(0, 1)} ]

TokenBundles ==
    [ name            : {"Tether USD", "Unknown", "Unknown Token", ""},
      symbol          : {"USDT", "UNKNOWN", ""},
      decimals        : {0, 6, 18},
      totalSupply     : {"0", "1000000000000000000", "2000000000000000000",
                         "10000000000000000000"},
      contractAddress : {ADDR_SHIB_CHECKSUM} ]

\* an analysis as POST hands it to the deriver: no rule fires on it
CleanAnalysis ==
    [ tokenData        |-> [ name |-> "Tether USD", symbol |-> "USDT",
                             decimals |-> 6,
                             totalSupply |-> "1000000000000000000",
                             contractAddress |-> ADDR_SHIB_CHECKSUM ],
      marketData       |-> <<MarketSnapshot(10000, 100000, -50)>>,
      securityAnalysis |-> [ isVerified            |-> TRUE,
                             hasProxyContract      |-> FALSE,
                             hasMintFunction       |-> FALSE,
                             hasPauseFunction      |-> FALSE,
                             hasBlacklistFunction  |-> FALSE,
                             hasOwnershipRenounced |-> TRUE,
                             rugPullRisk           |-> 0 ],
      holderAnalysis   |-> [ totalHolders           |-> 100,
                             top10HoldersPercentage |-> Frac(80, 1),
                             creatorPercentage      |-> Frac(50, 1),
                             distributionScore      |-> Frac(0, 1) ],
      riskFactors      |-> <<>>,
      overallRiskScore |-> 0,
      riskLevel        |-> "Medium",
      recommendation   |-> "" ]

\* an analysis on which every rule fires
LoadedAnalysis ==
    [ CleanAnalysis EXCEPT
        !.tokenData = [ name |-> "Unknown", symbol |-> "UNKNOWN",
                        decimals |-> 6,
                        totalSupply |-> "10000000000000000000",
                        contractAddress |-> ADDR_SHIB_CHECKSUM ],
        !.marketData = <<MarketSnapshot(9999, 99999, -51)>>,
        !.securityAnalysis = [ isVerified            |-> FALSE,
                               hasProxyContract      |-> TRUE,
                               hasMintFunction       |-> TRUE,
                               hasPauseFunction      |-> TRUE,
                               hasBlacklistFunction  |-> TRUE,
                               hasOwnershipRenounced |-> FALSE,
                               rugPullRisk           |-> 100 ],
        !.holderAnalysis = [ totalHolders           |-> 99,
                             top10HoldersPercentage |-> Frac(161, 2),
                             creatorPercentage      |-> Frac(101, 2),
                             distributionScore      |-> Frac(0, 1) ] ]

\* the analyses handed to the deriver directly: one bundle ranges over its
\* samples while the others are all clean or all loaded
SampleAnalyses ==
    UNION { { [b EXCEPT !.securityAnalysis = s] : s \in SecurityProfiles }
            \cup { [b EXCEPT !.marketData = m] : m \in MarketSnapshots }
            \cup { [b EXCEPT !.holderAnalysis = h] : h \in HolderProfiles }
            \cup { [b EXCEPT !.tokenData = t] : t \in TokenBundles } :
            b \in {CleanAnalysis, LoadedAnalysis} }
    \cup { [CleanAnalysis EXCEPT !.securityAnalysis = s,
                                 !.marketData = <<MarketSnapshot(10000, 100000, -51)>>] :
             s \in SecurityProfiles }

\* the direct calls, one set for each function
DetermineRiskLevelCalls ==
    { [fn |-> "determineRiskLevel", args |-> <<s1, s2>>] :
        s1 \in 0..100, s2 \in 0..100 }

GenerateRecommendationCalls ==
    { [fn |-> "generateRecommendation",
       args |-> <<[riskLevel |-> l, riskFactors |-> fs]>>] :
        l \in RiskLevels, fs \in SeqUpTo(SampleFactors, MaxFactors) }

IdentifyRiskFactorsFilteredCalls ==
    { [fn |-> "identifyRiskFactorsFiltered", args |-> <<a>>] :
        a \in SampleAnalyses }

CalculateDistributionScoreCalls ==
    { [fn |-> "calculateDistributionScore",
       args |-> <<holders, SumQuantities(holders)>>] :
        holders \in BalanceLists }

\* the adapters called on their own, on every answer their source can give:
\* each of the four contract reads can throw, answer non-OK, answer null,
\* answer an empty value or answer a value
GetTokenMetadataCalls ==
    { [fn |-> "getTokenMetadata",
       args |-> <<ADDR_SHIB_CHECKSUM, rName, rSymbol, rDecimals, rSupply>>] :
        rName \in ContractResponse({"Tether USD", ""}),
        rSymbol \in ContractResponse({"USDT", ""}),
        rDecimals \in ContractResponse({"6", "0", ""}),
        rSupply \in ContractResponse({"10000000000000000000", ""}) }

PerformSecurityAnalysisCalls ==
    { [fn |-> "performSecurityAnalysis", args |-> <<resp>>] :
        resp \in SecurityResponses }

\* the holder answers of the handler, and answers whose status is not "1"
\* although they carry rows
AnalyzeHolderDistributionCalls ==
    { [fn |-> "analyzeHolderDistribution", args |-> <<resp>>] :
        resp \in HolderResponses
                 \cup { [kind |-> "ok", isNull |-> FALSE, status |-> "0", result |-> hs] :
                          hs \in HolderLists } }

AnalyzeRedFlagsCalls ==
    { [fn |-> "analyzeRedFlags", args |-> <<t, tx, bal>>] :
        t \in LegacyTokenData, tx \in TransactionResponses, bal \in BalanceResponses }

PureInit ==
    /\ MainIdle
    /\ peer = IdleFrame
    /\ page = PageInitial
    /\ \/ call \in DetermineRiskLevelCalls
       \/ call \in GenerateRecommendationCalls
       \/ call \in IdentifyRiskFactorsFilteredCalls
       \/ call \in CalculateDistributionScoreCalls
       \/ call \in GetTokenMetadataCalls
       \/ call \in PerformSecurityAnalysisCalls
       \/ call \in AnalyzeHolderDistributionCalls
       \/ call \in AnalyzeRedFlagsCalls
    /\ ret = <<>>

\* determineRiskLevel applied to each of the two scores of the call
ApplyDetermineRiskLevel ==
    /\ call.fn = "determineRiskLevel"
    /\ ret = <<>>
    /\ ret' = << <<determineRiskLevel(call.args[1]),
                   determineRiskLevel(call.args[2])>> >>
    /\ UNCHANGED <<pc, request, started, settled, response, analysis, call, whitelist, peer, page>>

ApplyGenerateRecommendation ==
    /\ call.fn = "generateRecommendation"
    /\ ret = <<>>
    /\ ret' = <<generateRecommendation(call.args[1])>>
    /\ UNCHANGED <<pc, request, started, settled, response, analysis, call, whitelist, peer, page>>

ApplyIdentifyRiskFactorsFiltered ==
    /\ call.fn = "identifyRiskFactorsFiltered"
    /\ ret = <<>>
    /\ ret' = <<identifyRiskFactorsFiltered(call.args[1])>>
    /\ UNCHANGED <<pc, request, started, settled, response, analysis, call, whitelist, peer, page>>

ApplyCalculateDistributionScore ==
    /\ call.fn = "calculateDistributionScore"
    /\ ret = <<>>
    /\ ret' = <<calculateDistributionScore(call.args[1], call.args[2])>>
    /\ UNCHANGED <<pc, request, started, settled, response, analysis, call, whitelist, peer, page>>

ApplyGetTokenMetadata ==
    /\ call.fn = "getTokenMetadata"
    /\ ret = <<>>
    /\ ret' = <<getTokenMetadata(call.args[1], call.args[2], call.args[3],
                                 call.args[4], call.args[5])>>
    /\ UNCHANGED <<pc, request, started, settled, response, analysis, call, whitelist, peer, page>>

ApplyPerformSecurityAnalysis ==
    /\ call.fn = "performSecurityAnalysis"
    /\ ret = <<>>
    /\ ret' = <<performSecurityAnalysis(call.args[1])>>
    /\ UNCHANGED <<pc, request, started, settled, response, analysis, call, whitelist, peer, page>>

ApplyAnalyzeHolderDistribution ==
    /\ call.fn = "analyzeHolderDistribution"
    /\ ret = <<>>
    /\ ret' = <<analyzeHolderDistribution(call.args[1])>>
    /\ UNCHANGED <<pc, request, started, settled, response, analysis, call, whitelist, peer, page>>

\* the legacy POST: red flags, then their score and level
ApplyAnalyzeRedFlags ==
    /\ call.fn = "analyzeRedFlags"
    /\ ret = <<>>
    /\ LET redFlags == analyzeRedFlags(call.args[1], call.args[2], call.args[3])
           riskScore == calculateRiskScore(redFlags)
       IN  ret' = <<[ tokenData |-> call.args[1],
                      redFlags  |-> redFlags,
                      riskScore |-> riskScore,
                      riskLevel |-> getRiskLevel(riskScore) ]>>
    /\ UNCHANGED <<pc, request, started, settled, response, analysis, call, whitelist, peer, page>>

PureNext ==
    \/ ApplyDetermineRiskLevel
    \/ ApplyGenerateRecommendation
    \/ ApplyIdentifyRiskFactorsFiltered
    \/ ApplyCalculateDistributionScore
    \/ ApplyGetTokenMetadata
    \/ ApplyPerformSecurityAnalysis
    \/ ApplyAnalyzeHolderDistribution
    \/ ApplyAnalyzeRedFlags

PureSpec == PureInit /\ [][PureNext]_vars

---------------------------------------------------------------------------
(* Properties *)

Answered == pc = "done" /\ response.status = 200 /\ analysis # <<>>

\* the request went down the full analysis path
FullPath == started["market"] > 0

RECURSIVE SumOfImpacts(_, _)
SumOfImpacts(fs, i) ==
    IF i > Len(fs) THEN 0 ELSE fs[i].impact + SumOfImpacts(fs, i + 1)

\* C1: in every analysis returned, on the full path and on the allowlist
\* path, overallRiskScore is min(100, sum of the impacts of the riskFactors
\* of that analysis), hence an integer in 0..100.
C1_ScoreIsClampedSum ==
    analysis # <<>> =>
        LET a == analysis[1]
            total == SumOfImpacts(a.riskFactors, 1)
        IN  /\ a.overallRiskScore = (IF total > 100 THEN 100 ELSE total)
            /\ a.overallRiskScore \in 0..100

\* C1 witness: an analysis was returned whose impacts sum to more than 100
C1_Witness ==
    /\ Answered
    /\ SumOfImpacts(analysis[1].riskFactors, 1) > 100
    /\ analysis[1].overallRiskScore = 100

TierRank(l) ==
    CASE l = "Very Low" -> 0 [] l = "Low" -> 1 [] l = "Medium" -> 2
      [] l = "High" -> 3 [] l = "Very High" -> 4

TierTable(s, l) ==
    /\ (s <= 10) => l = "Very Low"
    /\ (10 < s /\ s <= 25) => l = "Low"
    /\ (25 < s /\ s <= 50) => l = "Medium"
    /\ (50 < s /\ s <= 75) => l = "High"
    /\ (s > 75) => l = "Very High"

\* C2: for every score in 0..100 determineRiskLevel follows the thresholds
\* 10/25/50/75 with inclusive upper bounds, and for all s1 <= s2 the tier of
\* s1 is not higher than the tier of s2.
C2_TierThresholds ==
    (call.fn = "determineRiskLevel" /\ ret # <<>>) =>
        LET s1 == call.args[1]
            s2 == call.args[2]
            l1 == ret[1][1]
            l2 == ret[1][2]
        IN  /\ TierTable(s1, l1)
            /\ TierTable(s2, l2)
            /\ s1 <= s2 => TierRank(l1) <= TierRank(l2)

\* C2 witness: the scores 25 and 26 straddle a threshold
C2_Witness ==
    /\ call.fn = "determineRiskLevel"
    /\ ret # <<>>
    /\ call.args = <<25, 26>>
    /\ ret[1] = <<"Low", "Medium">>

\* C3: generateRecommendation returns the message of the first matching
\* rule: critical factor -> avoid; Very High or >= 3 high factors -> high
\* risk; High -> caution; Medium -> moderate; Low -> low risk; else very low.
C3_RecommendationCascade ==
    (call.fn = "generateRecommendation" /\ ret # <<>>) =>
        LET a == call.args[1]
            fs == a.riskFactors
            r1 == \E i \in 1..Len(fs) : fs[i].severity = "critical"
            r2 == \/ a.riskLevel = "Very High"
                  \/ \E i, j, k \in 1..Len(fs) :
                        /\ i < j /\ j < k
                        /\ fs[i].severity = "high"
                        /\ fs[j].severity = "high"
                        /\ fs[k].severity = "high"
            r3 == a.riskLevel = "High"
            r4 == a.riskLevel = "Medium"
            r5 == a.riskLevel = "Low"
        IN  /\ r1 => ret[1] = MsgAvoid
            /\ (~r1 /\ r2) => ret[1] = MsgHighRisk
            /\ (~r1 /\ ~r2 /\ r3) => ret[1] = MsgCaution
            /\ (~r1 /\ ~r2 /\ ~r3 /\ r4) => ret[1] = MsgModerate
            /\ (~r1 /\ ~r2 /\ ~r3 /\ ~r4 /\ r5) => ret[1] = MsgLowRisk
            /\ (~r1 /\ ~r2 /\ ~r3 /\ ~r4 /\ ~r5) => ret[1] = MsgVeryLow

\* C3 witness: a single critical factor with tier Medium yields "avoid"
C3_Witness ==
    /\ call.fn = "generateRecommendation"
    /\ ret # <<>>
    /\ call.args[1].riskLevel = "Medium"
    /\ call.args[1].riskFactors = <<FCreator>>
    /\ ret[1] = MsgAvoid

\* 0x followed by exactly 40 hexadecimal characters
WellFormedAddress(addr) ==
    /\ Len(addr) = 42
    /\ <<addr[1], addr[2]>> = <<"0", "x">>
    /\ \A i \in 3..42 :
          addr[i] \in {"0","1","2","3","4","5","6","7","8","9"}
                      \cup {"a","b","c","d","e","f"} \cup {"A","B","C","D","E","F"}

SameLetter(c, d) ==
    \/ c = d
    \/ {c, d} \in { {"a","A"}, {"b","B"}, {"c","C"}, {"d","D"}, {"e","E"},
                    {"f","F"}, {"x","X"} }

EqualsIgnoringCase(a, b) ==
    /\ Len(a) = Len(b)
    /\ \A i \in 1..Len(a) : SameLetter(a[i], b[i])

Allowlisted(addr) ==
    \E i \in 1..Len(BLUECHIP_WHITELIST) :
        EqualsIgnoringCase(addr, BLUECHIP_WHITELIST[i])

ValidRequest ==
    /\ pc # "idle"
    /\ request.json
    /\ WellFormedAddress(request.contractAddress)

\* C4: a well-formed address that equals an allowlist entry when letter
\* case is ignored is answered, whatever the metadata sub-calls did, with
\* riskLevel Very Low, score 0, no factors and the fixed recommendation.
C4_AllowlistVerdict ==
    (pc = "done" /\ ValidRequest /\ Allowlisted(request.contractAddress)) =>
        /\ response.status = 200
        /\ analysis # <<>>
        /\ analysis[1].riskLevel = "Very Low"
        /\ analysis[1].overallRiskScore = 0
        /\ analysis[1].riskFactors = <<>>
        /\ analysis[1].recommendation = MsgBluechip

\* C4 witness: the checksummed (mixed-case) WETH address was answered after
\* its name and symbol sub-calls failed
C4_Witness ==
    /\ Answered
    /\ request.contractAddress = ADDR_WETH_CHECKSUM
    /\ request.contractAddress # toLowerCase(request.contractAddress)
    /\ analysis[1].tokenData.name = "Unknown"
    /\ analysis[1].tokenData.symbol = "UNKNOWN"

\* the steps still ahead of the handler: its own continuations and the
\* adapters that have not settled
Remaining ==
    CASE pc = "idle"    -> 7
      [] pc = "parsing" -> 6
      [] pc \in {"bluechip", "waiting"} ->
            1 + Cardinality({a \in Adapters : settled[a].status = "pending"})
      [] pc = "done"    -> 0

\* C5: a request with a well-formed address is never answered with an error
\* and is answered with an analysis once its external calls have settled:
\* until the analysis is returned some step is enabled (for Aggregate,
\* whose primed conjuncts are assignments, its guard), and every step
\* leaves fewer steps ahead, so weak fairness of the steps leads to the
\* answer.
C5_AlwaysAnswers ==
    /\ [](ValidRequest =>
            /\ response.status \in {0, 200}
            /\ \/ Answered
               \/ AggregateReady
               \/ ENABLED (StartBluechip \/ StartAnalysis \/ RespondBluechip)
               \/ ENABLED (SettleMetadata \/ SettleMarket
                              \/ SettleSecurity \/ SettleHolder))
    /\ [][ValidRequest => Remaining' < Remaining]_vars

\* C5 witness: an analysis was returned although every fetch of all four
\* adapters failed
C5_Witness ==
    /\ Answered
    /\ FullPath
    /\ \A a \in Adapters : settled[a].nodata

DefaultOf(a, contractAddress) ==
    CASE a = "metadata" -> getDefaultTokenData(contractAddress)
      [] a = "market"   -> <<>>
      [] a = "security" -> getDefaultSecurityAnalysis
      [] a = "holder"   -> getDefaultHolderAnalysis

BundleOf(an, a) ==
    CASE a = "metadata" -> an.tokenData
      [] a = "market"   -> an.marketData
      [] a = "security" -> an.securityAnalysis
      [] a = "holder"   -> an.holderAnalysis

\* C6: on the full path, the bundle of an adapter whose source gave no data
\* is that adapter's default, and the bundle of every other adapter is what
\* that adapter returned.
C6_FailedAdapterYieldsDefault ==
    (Answered /\ FullPath) =>
        \A a \in Adapters :
            IF settled[a].nodata
            THEN BundleOf(analysis[1], a) = DefaultOf(a, request.contractAddress)
            ELSE BundleOf(analysis[1], a) = settled[a].value[1]

\* C7: each adapter is invoked at most once; when the handler suspends on
\* the join all four have been invoked, none waiting for another; and an
\* analysis of the full path exists only once all four have settled.
C7_FanOutAndJoin ==
    /\ \A a \in Adapters : started[a] <= 1
    /\ pc = "waiting" => \A a \in Adapters : started[a] = 1
    /\ (FullPath /\ (pc = "done" \/ analysis # <<>>)) =>
          \A a \in Adapters : started[a] = 1 /\ settled[a].status # "pending"

\* C7 witness: the analysis of the full path was built after the security
\* source failed and the other three adapters settled with data
C7_Witness ==
    /\ Answered
    /\ FullPath
    /\ settled["security"].nodata
    /\ \A a \in Adapters \ {"security"} : ~settled[a].nodata

\* the values an adapter returns when its source answers with data
SuccessValues(a, contractAddress) ==
    CASE a = "metadata" ->
           { getTokenMetadata(contractAddress, rn, rs, rd, rt) :
               rn \in {r \in NameResponses : r.kind = "ok"},
               rs \in {r \in SymbolResponses : r.kind = "ok"},
               rd \in {r \in DecimalsResponses : r.kind = "ok"},
               rt \in {r \in SupplyResponses : r.kind = "ok" /\ ~r.isNull} }
      [] a = "market" ->
           { getMarketData(r) : r \in {x \in MarketResponses : x.kind = "ok" /\ ~x.isNull} }
      [] a = "security" ->
           { performSecurityAnalysis(r) :
               r \in {x \in SecurityResponses : x.kind = "ok" /\ ~x.isNull} }
      [] a = "holder" ->
           { analyzeHolderDistribution(r) :
               r \in {x \in HolderResponses :
                        x.kind = "ok" /\ x.status = "1" /\ Len(x.result) > 0} }

\* the analysis of this request had adapter a returned v
AnalysisWith(a, v) ==
    BuildAnalysis(request.contractAddress, [settled EXCEPT ![a] = Fulfilled(v, FALSE)])

CategoriesOf(a) ==
    CASE a = "metadata" -> {"Metadata", "Tokenomics"}
      [] a = "market"   -> {"Market"}
      [] a = "security" -> {"Security"}
      [] a = "holder"   -> {"Distribution"}

RECURSIVE InCategories(_, _)
InCategories(fs, cats) ==
    IF fs = <<>> THEN <<>>
    ELSE (IF Head(fs).category \in cats THEN <<Head(fs)>> ELSE <<>>)
         \o InCategories(Tail(fs), cats)

\* what an adapter without data contributes to the factor list
FallbackFactors(a) ==
    CASE a = "metadata" -> <<FMetadata>>
      [] a = "market"   -> <<>>
      [] a = "security" -> <<FUnverified>>
      [] a = "holder"   -> <<>>

CategoryRank(c) ==
    CASE c = "Security" -> 1 [] c = "Market" -> 2 [] c = "Distribution" -> 3
      [] c = "Metadata" -> 4 [] c = "Tokenomics" -> 5

\* C10: in every returned factor list the factors are grouped by category
\* in the order Security, Market, Distribution, Metadata, Tokenomics.
C10_CategoryOrder ==
    analysis # <<>> =>
        LET fs == analysis[1].riskFactors
        IN  \A i, j \in 1..Len(fs) :
                i < j => CategoryRank(fs[i].category) <= CategoryRank(fs[j].category)

\* C10 witness: a returned list holds factors of all five categories
C10_Witness ==
    /\ Answered
    /\ { analysis[1].riskFactors[i].category : i \in 1..Len(analysis[1].riskFactors) }
          = {"Security", "Market", "Distribution", "Metadata", "Tokenomics"}

\* the deriver was called directly and has returned
DeriverReturned == call.fn = "identifyRiskFactorsFiltered" /\ ret # <<>>

\* the rows <<condition, severity, impact>> whose condition holds, in order
RECURSIVE FiredRows(_)
FiredRows(rows) ==
    IF rows = <<>> THEN <<>>
    ELSE (IF Head(rows)[1] THEN <<Tail(Head(rows))>> ELSE <<>>)
         \o FiredRows(Tail(rows))

SeverityImpact(fs) == [i \in 1..Len(fs) |-> <<fs[i].severity, fs[i].impact>>]

\* a listing far above every threshold of the market rules
HealthySnapshot == MarketSnapshot(5000000, 90000000, 3)

\* C11: without a market snapshot the deriver emits no Market factor and
\* the score equals that of the same bundle with a healthy snapshot; with a
\* snapshot the Market factors are exactly volume24h < 10000 (medium, 15),
\* marketCap < 100000 (medium, 10), priceChange24h < -50 (high, 20), so
\* that 10000, 100000 and -50 themselves do not fire.
C11_MarketRules ==
    DeriverReturned =>
        LET a == call.args[1]
            market == InCategories(ret[1], {"Market"})
        IN  IF a.marketData = <<>>
            THEN /\ market = <<>>
                 /\ calculateOverallRiskScore(ret[1])
                      = calculateOverallRiskScore(identifyRiskFactorsFiltered(
                            [a EXCEPT !.marketData = <<HealthySnapshot>>]))
            ELSE SeverityImpact(market)
                   = FiredRows(<< <<a.marketData[1].volume24h < 10000, "medium", 15>>,
                                  <<a.marketData[1].marketCap < 100000, "medium", 10>>,
                                  <<a.marketData[1].priceChange24h < -50, "high", 20>> >>)

\* C11 witness: the deriver returned on a snapshot whose market cap is on
\* its threshold while volume and price change are below theirs
C11_Witness ==
    /\ DeriverReturned
    /\ call.args[1].marketData = <<MarketSnapshot(9999, 100000, -51)>>
    /\ SeverityImpact(InCategories(ret[1], {"Market"}))
         = << <<"medium", 15>>, <<"high", 20>> >>

\* calculateDistributionScore was called directly and has returned
ScorerReturned == call.fn = "calculateDistributionScore" /\ ret # <<>>

\* the balances of a holder list, in the order given
Balances(holders) ==
    [i \in 1..Len(holders) |-> parseQuantity(holders[i].TokenHolderQuantity[1])]

RECURSIVE Total(_, _)
Total(xs, i) == IF i > Len(xs) THEN 0 ELSE xs[i] + Total(xs, i + 1)

\* C12: for every list of non-negative balances the distribution score is
\* a number in [0, 100], and it is 0 when the list is empty, holds no
\* positive balance or sums to zero.
C12_ScoreRange ==
    ScorerReturned =>
        LET xs == Balances(call.args[1])
            score == ret[1]
        IN  /\ score.d > 0
            /\ 0 <= score.n
            /\ score.n <= 100 * score.d
            /\ (xs = <<>> \/ (\A i \in 1..Len(xs) : xs[i] <= 0) \/ Total(xs, 1) = 0)
                 => score.n = 0

\* C12 witness: the scorer returned 0 on a list of several balances, all zero
C12_Witness ==
    /\ ScorerReturned
    /\ Len(call.args[1]) > 1
    /\ \A i \in 1..Len(call.args[1]) : Balances(call.args[1])[i] = 0
    /\ ret[1] = Frac(0, 1)

\* the number of positive balances of a list
Positives(xs) == Cardinality({ i \in 1..Len(xs) : xs[i] > 0 })

\* C13 as claimed: when one holder owns the whole supply (one positive
\* balance, every other balance zero) the distribution score is 0.
C13_SingleHolderScoresZero ==
    (ScorerReturned /\ Positives(Balances(call.args[1])) = 1) => ret[1].n = 0

C15_AllowlistCallsOnlyMetadata ==
    (ValidRequest /\ Allowlisted(request.contractAddress)) =>
        /\ \A a \in Adapters \ {"metadata"} :
              started[a] = 0 /\ settled[a].status = "pending"
        /\ started["metadata"] <= 1
        /\ pc \in {"bluechip", "done"} => started["metadata"] = 1

\* C15 witness: an allowlisted address given in upper case was answered
\* after its metadata call settled
C15_Witness ==
    /\ Answered
    /\ request.contractAddress = ADDR_USDC_UPPER
    /\ started["metadata"] = 1
    /\ settled["metadata"].status = "fulfilled"

\* C16: for every security profile the Security factors of the deriver are
\* exactly, in this order and each on its own flag alone: not verified
\* (high, 25), mint function (medium, 15), blacklist function (high, 25),
\* pause function (medium, 15), proxy or upgradeable (medium, 20).
C16_SecurityRules ==
    DeriverReturned =>
        LET s == call.args[1].securityAnalysis
        IN  SeverityImpact(InCategories(ret[1], {"Security"}))
              = FiredRows(<< <<~s.isVerified, "high", 25>>,
                             <<s.hasMintFunction, "medium", 15>>,
                             <<s.hasBlacklistFunction, "high", 25>>,
                             <<s.hasPauseFunction, "medium", 15>>,
                             <<s.hasProxyContract, "medium", 20>> >>)

\* C16 witness: the deriver returned the five Security factors together
C16_Witness ==
    /\ DeriverReturned
    /\ ~call.args[1].securityAnalysis.isVerified
    /\ Len(InCategories(ret[1], {"Security"})) = 5
    /\ InCategories(ret[1], {"Market", "Distribution", "Metadata", "Tokenomics"}) = <<>>

\* C17: with totalHolders = 0, the default profile 0/100/100/0 included, the
\* deriver emits no Distribution factor; with totalHolders > 0 the
\* Distribution factors are exactly top10HoldersPercentage > 80 (high, 25),
\* creatorPercentage > 50 (critical, 30) and totalHolders < 100 (medium, 10),
\* so that 80, 50 and 100 themselves do not fire.
C17_DistributionRules ==
    DeriverReturned =>
        LET h == call.args[1].holderAnalysis
            distribution == SeverityImpact(InCategories(ret[1], {"Distribution"}))
        IN  IF h.totalHolders > 0
            THEN distribution
                   = FiredRows(<< <<h.top10HoldersPercentage.n > 80 * h.top10HoldersPercentage.d,
                                    "high", 25>>,
                                  <<h.creatorPercentage.n > 50 * h.creatorPercentage.d,
                                    "critical", 30>>,
                                  <<h.totalHolders < 100, "medium", 10>> >>)
            ELSE distribution = <<>>

\* C17 witness: the deriver returned on 100 holders with the top ten at 80.5%
\* and the creator at exactly 50%, and emitted the top-ten factor alone
C17_Witness ==
    /\ DeriverReturned
    /\ call.args[1].holderAnalysis.totalHolders = 100
    /\ call.args[1].holderAnalysis.top10HoldersPercentage = [n |-> 161, d |-> 2]
    /\ call.args[1].holderAnalysis.creatorPercentage = [n |-> 50, d |-> 1]
    /\ SeverityImpact(InCategories(ret[1], {"Distribution"})) = << <<"high", 25>> >>

\* the names and symbols the adapter and the default bundle put in place of
\* a missing value
PlaceholderName(name) == name \in {"Unknown", "Unknown Token"}
PlaceholderSymbol(symbol) == symbol = "UNKNOWN"

NormalizedSupplyExceedsTrillion(totalSupply, decimals) ==
    LET p == parseFloat(totalSupply)
    IN  \/ p.m >= 1 /\ p.e - decimals >= 13
        \/ p.m >= 2 /\ p.e - decimals = 12

\* C19 as claimed: in every analysis of the full path the Tokenomics factor
\* (medium, 15) is present iff totalSupply / 10^decimals > 1e12, for every
\* decimals >= 0, 0 included.
C19_TokenomicsRule ==
    (Answered /\ FullPath) =>
        LET t == analysis[1].tokenData
        IN  SeverityImpact(InCategories(analysis[1].riskFactors, {"Tokenomics"}))
              = FiredRows(<< <<t.decimals >= 0
                               /\ NormalizedSupplyExceedsTrillion(t.totalSupply, t.decimals),
                               "medium", 15>> >>)

\* the 1-based rank of xs[j] when xs is sorted ascending, ties in the order
\* of the list
Rank(xs, j) ==
    1 + Cardinality({ k \in 1..Len(xs) : xs[k] < xs[j] })
      + Cardinality({ k \in 1..(j - 1) : xs[k] = xs[j] })

RECURSIVE RankWeightedTotal(_, _)
RankWeightedTotal(xs, j) ==
    IF j > Len(xs) THEN 0 ELSE Rank(xs, j) * xs[j] + RankWeightedTotal(xs, j + 1)

\* score = clamp((1 - gini) * 100, 0, 100) with
\* gini = 2*sum(i*x_i)/(n*sum(x_i)) - (n+1)/n over the list xs, n = Len(xs),
\* for a score given as a fraction and a list of positive total
IsGiniScore(score, xs) ==
    LET n == Len(xs)
        total == Total(xs, 1)
        num == 100 * ((2 * n + 1) * total - 2 * RankWeightedTotal(xs, 1))
        den == n * total
        clamped == IF num < 0 THEN 0 ELSE IF num > 100 * den THEN 100 * den ELSE num
    IN  score.d > 0 /\ score.n * den = clamped * score.d

IsPositive(x) == x > 0

\* C20 as claimed: for every list of non-negative balances of positive
\* total the score is the clamped (1 - gini) * 100 of the whole list, its
\* zero balances counted in n.
C20_GiniOverWholeList ==
    (ScorerReturned /\ Total(Balances(call.args[1]), 1) > 0) =>
        IsGiniScore(ret[1], Balances(call.args[1]))

\* C20 amended: for every list of non-negative balances of positive total
\* the score is the clamped (1 - gini) * 100 of the positive balances of
\* the list sorted ascending, n being the number of positive balances; zero
\* balances are discarded and do not count.
C20_GiniOverPositiveBalances ==
    (ScorerReturned /\ Total(Balances(call.args[1]), 1) > 0) =>
        IsGiniScore(ret[1], SelectSeq(Balances(call.args[1]), IsPositive))

\* C20 witness: the scorer returned 70 on the balances 4, 0, 1, the score
\* of the two balances 1 and 4
C20_Witness ==
    /\ ScorerReturned
    /\ Balances(call.args[1]) = <<4, 0, 1>>
    /\ ret[1] = [n |-> 70, d |-> 1]

\* min(100, 25 if not verified + 15 if mint + 25 if blacklist + 10 if pause
\* + 15 if proxy + 10 if ownership not renounced)
RiskOfFlags(s) ==
    LET Weight(flag, w) == IF flag THEN w ELSE 0
        total == Weight(~s.isVerified, 25) + Weight(s.hasMintFunction, 15)
                 + Weight(s.hasBlacklistFunction, 25) + Weight(s.hasPauseFunction, 10)
                 + Weight(s.hasProxyContract, 15) + Weight(~s.hasOwnershipRenounced, 10)
    IN  IF total > 100 THEN 100 ELSE total

\* C21 as claimed: in every analysis returned, whichever way its security
\* profile came about, rugPullRisk is the fixed function of the flags of
\* that profile.
C21_RugPullRiskDerived ==
    analysis # <<>> =>
        analysis[1].securityAnalysis.rugPullRisk
          = RiskOfFlags(analysis[1].securityAnalysis)

\* performSecurityAnalysis was called directly and has returned
SecurityReturned == call.fn = "performSecurityAnalysis" /\ ret # <<>>

\* the source lookup answered non-OK, threw (a null body throws when read),
\* or gave an empty source
LookupFailed(resp) ==
    \/ resp.kind \in {"throw", "notok"}
    \/ resp.isNull
    \/ resp.SourceCode = <<>>
    \/ resp.SourceCode[1] = {}

MetadataReturned == call.fn = "getTokenMetadata" /\ ret # <<>>

\* the contract read answered with a non-empty value
Fetched(resp) ==
    resp.kind = "ok" /\ ~resp.isNull /\ resp.data # <<>> /\ resp.data[1] # ""

\* C23 as claimed: whatever subset of the four reads fails, each failed or
\* empty field holds its placeholder ("Unknown", "UNKNOWN", 18, "0"), each
\* other field the fetched value, and contractAddress the requested address.
C23_SubCallPlaceholders ==
    MetadataReturned =>
        LET rName == call.args[2]
            rSymbol == call.args[3]
            rDecimals == call.args[4]
            rSupply == call.args[5]
        IN  /\ ret[1].name = (IF Fetched(rName) THEN rName.data[1] ELSE "Unknown")
            /\ ret[1].symbol = (IF Fetched(rSymbol) THEN rSymbol.data[1] ELSE "UNKNOWN")
            /\ ret[1].decimals
                 = (IF Fetched(rDecimals) THEN parseInt(rDecimals.data[1]) ELSE 18)
            /\ ret[1].totalSupply = (IF Fetched(rSupply) THEN rSupply.data[1] ELSE "0")
            /\ ret[1].contractAddress = call.args[1]

\* analyzeHolderDistribution was called directly and has returned
HolderReturned == call.fn = "analyzeHolderDistribution" /\ ret # <<>>

\* C24: when the holder-list request throws, answers non-OK, answers with a
\* status other than "1" (rate-limited, say) or answers without rows, the
\* adapter returns exactly totalHolders 0, top10HoldersPercentage 100,
\* creatorPercentage 100, distributionScore 0.
C24_HolderDefault ==
    HolderReturned =>
        LET resp == call.args[1]
        IN  (\/ resp.kind \in {"throw", "notok"}
             \/ resp.isNull
             \/ resp.status # "1"
             \/ Len(resp.result) = 0)
            => ret[1] = [ totalHolders           |-> 0,
                          top10HoldersPercentage |-> [n |-> 100, d |-> 1],
                          creatorPercentage      |-> [n |-> 100, d |-> 1],
                          distributionScore      |-> [n |-> 0, d |-> 1] ]

\* C24 witness: the adapter returned the default on an OK answer of status
\* "0" that carries holder rows
C24_Witness ==
    /\ HolderReturned
    /\ call.args[1].kind = "ok"
    /\ call.args[1].status = "0"
    /\ Len(call.args[1].result) > 0
    /\ SumQuantities(call.args[1].result) > 0
    /\ ret[1].totalHolders = 0

\* C26: in every result built from derived factors, tier Very Low comes
\* with the very-low-risk message and tier Low with the low-risk message (a
\* critical factor forces a score of at least 30, three high factors one of
\* at least 70), the high-risk message occurs only with tier High or Very
\* High, and the avoid message only with a score of at least 30.
C26_DivergenceOnlyUpward ==
    DeriverReturned =>
        LET fs == ret[1]
            score == calculateOverallRiskScore(fs)
            tier == determineRiskLevel(score)
            message == generateRecommendation([riskLevel |-> tier, riskFactors |-> fs])
            Severe(sev) == Cardinality({ i \in 1..Len(fs) : fs[i].severity = sev })
        IN  /\ tier = "Very Low" => message = MsgVeryLow
            /\ tier = "Low" => message = MsgLowRisk
            /\ Severe("critical") > 0 => score >= 30
            /\ Severe("high") >= 3 => score >= 70
            /\ message = MsgHighRisk => tier \in {"High", "Very High"}
            /\ message = MsgAvoid => score >= 30

\* C26 witness: the deriver returned exactly three high factors and nothing
\* else, a score of 70: tier High with the high-risk message
C26_Witness ==
    /\ DeriverReturned
    /\ Len(ret[1]) = 3
    /\ \A i \in 1..3 : ret[1][i].severity = "high"
    /\ calculateOverallRiskScore(ret[1]) = 70
    /\ determineRiskLevel(70) = "High"
    /\ generateRecommendation([riskLevel |-> "High", riskFactors |-> ret[1]]) = MsgHighRisk

\* the factors of a list, as a set
FactorSet(fs) == { fs[i] : i \in 1..Len(fs) }

\* C27: in every analysis returned, a security profile with isVerified =
\* false has every other flag false; hence no analysis of the full path
\* holds the "not verified" factor together with a mint, blacklist, pause or
\* proxy factor.
C27_UnverifiedHasNoFlags ==
    analysis # <<>> =>
        LET s == analysis[1].securityAnalysis
            factors == FactorSet(analysis[1].riskFactors)
        IN  /\ ~s.isVerified =>
                 /\ ~s.hasMintFunction
                 /\ ~s.hasPauseFunction
                 /\ ~s.hasBlacklistFunction
                 /\ ~s.hasProxyContract
                 /\ ~s.hasOwnershipRenounced
            /\ FUnverified \in factors =>
                 factors \cap {FMint, FBlacklist, FPause, FProxy} = {}

\* C27 witness: an analysis of the full path whose security source answered
\* OK with an empty source: "not verified" is its only Security factor
C27_Witness ==
    /\ Answered
    /\ FullPath
    /\ ~settled["security"].nodata
    /\ ~analysis[1].securityAnalysis.isVerified
    /\ InCategories(analysis[1].riskFactors, {"Security"}) = <<FUnverified>>

\* C28: a request whose contractAddress is missing or is not 0x followed
\* by exactly 40 hexadecimal characters is answered with status 400 and no
\* analysis, and at no point of that request is the allowlist branch entered
\* or an adapter invoked.
C28_ValidationFirst ==
    (pc # "idle" /\ request.json /\ ~WellFormedAddress(request.contractAddress)) =>
        /\ pc \in {"parsing", "done"}
        /\ \A a \in Adapters : started[a] = 0 /\ settled[a].status = "pending"
        /\ analysis = <<>>
        /\ pc = "done" => response.status = 400

\* C28 witness: an address of 42 characters with a non-hexadecimal one was
\* answered with 400
C28_Witness ==
    /\ pc = "done"
    /\ request.contractAddress = ADDR_NONHEX
    /\ response.status = 400
    /\ \A a \in Adapters : started[a] = 0

\* the legacy analysis was run directly and has returned
LegacyReturned == call.fn = "analyzeRedFlags" /\ ret # <<>>

\* C30: in the legacy path recentlyCreated equals fewTransfers whatever the
\* transaction lookup did, so the two flags add 20 + 15 together or nothing
\* to the riskScore, which stays within 0..100.
C30_RecentlyCreatedIsFewTransfers ==
    LegacyReturned =>
        LET flags == ret[1].redFlags
            others == (IF flags.noNameOrSymbol THEN 25 ELSE 0)
                      + (IF flags.hugeSupply THEN 20 ELSE 0)
                      + (IF flags.fewHolders THEN 20 ELSE 0)
        IN  /\ flags.recentlyCreated = flags.fewTransfers
            /\ flags.fewTransfers
                 = (call.args[2].kind # "ok" \/ ~call.args[2].isArray
                    \/ call.args[2].length < 5)
            /\ ret[1].riskScore = others + (IF flags.fewTransfers THEN 35 ELSE 0)
            /\ ret[1].riskScore \in 0..100

\* C30 witness: the transaction lookup threw and every flag is set: the score
\* is 100
C30_Witness ==
    /\ LegacyReturned
    /\ call.args[2].kind = "throw"
    /\ ret[1].redFlags.recentlyCreated
    /\ ret[1].redFlags.fewTransfers
    /\ ret[1].riskScore = 100

\* the messages handleAnalyze shows for an address that fails validation
ValidationMessages ==
    { "Please enter a contract address",
      "Please enter a valid Ethereum contract address (0x followed by 40 hexadecimal characters)" }

\* a step of the page in which a submission passes validation
SubmissionAccepted == page.at = "idle" /\ page'.at = "fetch"

\* a step of the page in which a submission is turned down
SubmissionRefused == page'.error \in ValidationMessages /\ page'.error # page.error

\* a step of the page in which handleAnalyze runs to its end
SubmissionCompleted == page.at # "idle" /\ page'.at = "idle"

C29_StepRule ==
    /\ SubmissionAccepted =>
         /\ AddressRegex(trimChars(page.contractAddress))
         /\ page'.isAnalyzing /\ page'.error = "" /\ page'.result = <<>>
         /\ page'.sent = page.sent + 1
    /\ page.at # "idle" => page'.sent = page.sent
    /\ SubmissionRefused =>
         /\ ~AddressRegex(trimChars(page.contractAddress))
         /\ page'.sent = page.sent
         /\ page'.isAnalyzing = page.isAnalyzing
         /\ page'.result = page.result
    /\ SubmissionCompleted =>
         /\ ~page'.isAnalyzing
         /\ (page'.result # <<>>) # (page'.error # "")

\* C29: a submission that passes validation sets isAnalyzing, clears error
\* and result and sends one request, and no further request is sent while
\* it runs; a submission that fails validation sends nothing and leaves
\* isAnalyzing and result as they were; when the handler ends, isAnalyzing
\* is false and exactly one of result and error is set; and once the fetch
\* has settled the handler does end.
C29_SubmitHandler ==
    /\ [][C29_StepRule]_vars
    /\ (page.outcome # <<>>) ~> (~page.isAnalyzing)

\* C29 witness: a submission has come back with the analysis
C29_Witness ==
    /\ page.sent = 1
    /\ page.at = "idle"
    /\ ~page.isAnalyzing
    /\ page.result = <<"analysis">>
    /\ page.error = ""

\* C25: with two requests in progress and their steps interleaved in any
\* order, no step changes the allowlist, and two requests that carried the
\* same body and whose adapters settled the same way have the same response
\* and the same analysis, whatever the other request was doing meanwhile.
C25_NoInterference ==
    /\ whitelist = BLUECHIP_WHITELIST
    /\ (pc = "done" /\ peer.pc = "done"
        /\ request = peer.request /\ settled = peer.settled) =>
           /\ response = peer.response
           /\ analysis = peer.analysis
    /\ pc = "done" =>
           \/ response.status # 200
           \/ analysis = <<BluechipAnalysis(settled["metadata"].value[1])>>
           \/ analysis = <<BuildAnalysis(request.contractAddress, settled)>>

\* C25 witness: two full analyses of the same address have finished, one of
\* them with every adapter answered and the other with every source failing
C25_Witness ==
    /\ pc = "done" /\ peer.pc = "done"
    /\ request.contractAddress = ADDR_SHIB_CHECKSUM
    /\ peer.request = request
    /\ \A a \in Adapters : ~settled[a].nodata /\ peer.settled[a].nodata
    /\ analysis # peer.analysis

====
